---- MODULE Spec2Model ----
(***************************************************************************)
(* Storage access core of the FileManager application: the recycle bin in  *)
(* its two implementations (a metadata list in AsyncStorage, and '.meta'   *)
(* sidecar files next to each recycled file) and the delete operation of   *)
(* the file explorer.                                                      *)
(*                                                                         *)
(* Every exported function is an async function.  A call is a process with *)
(* a program counter: one step per awaited I/O call, together with the     *)
(* synchronous code that precedes it.  Steps of different calls interleave *)
(* freely, as promises do on the JavaScript event loop.                    *)
(***************************************************************************)
EXTENDS Integers, Sequences, FiniteSets, TLC

\* ---------------------------------------------------------------- bounds
MaxClock == 2      \* Date.now() takes the values 1..MaxClock
MaxSize == 2       \* a file's content is identified by its length, 1..MaxSize
MaxItems == 2      \* moveToRecycleBin is not started on a list this long
MaxFaults == 1     \* I/O calls that may reject for no modelled reason
MaxCalls == 3      \* calls issued under rejections or interleaving

\* ---------------------------------------------------------------- universe
Dirs == {"A", "B"}
Names == {"x"}
Paths == Dirs \X Names                    \* "<dir>/<name>"
DirTargets == {<<d, "">> : d \in Dirs}    \* the path of a directory itself
NoPath == <<"", "">>
Procs == {1, 2}
SeqProcs == {1}
ConcProcs == {1, 2}
BinNames == (1..MaxClock) \X Names        \* "<id>_<name>" in the holding directory

VARIABLES
    impl,        \* "kv": AsyncStorage list; "sidecar": .meta files
    clock,       \* the value Date.now() returns
    files,       \* Paths -> length of the file there, 0 when absent
    dirs,        \* the parent directories that exist
    bin,         \* BinNames -> length of the recycled file, 0 when absent
    metaf,       \* BinNames -> the content of "<name>.meta", NoMeta when absent
    store,       \* the parsed value under '@recycle_bin_items' (absent reads as [])
    proc,        \* the calls in flight
    active,      \* the callers that issue calls
    ghost,       \* whether a call records the state it was issued in
    calls,       \* the calls that may still be issued; negative: no limit
    faults,      \* I/O rejections still to come
    lastPurged,  \* the item of the latest successful deleteFromRecycleBin
    binDir,      \* whether the holding directory exists
    denied,      \* the directories RNFS.readDir rejects for
    nostat,      \* the paths RNFS.stat rejects for
    mtimes,      \* the modification times of the files of the tree
    fileIndex,   \* SearchScreen: the index buildFileIndex published
    searchResults,   \* SearchScreen: the results searchFiles published
    recentSearches,  \* SearchScreen: the queries last searched for
    out,         \* the value the latest scan or listing returned
    perm,        \* the permission flags in AsyncStorage, the alerts, the device
    fileCache,   \* the parsed value under 'fileCache', NoCache when absent
    live,        \* the live search screen: its searches in flight, its state
    recentFiles, \* the parsed value under '@recent_files', <<>> when absent
    holding      \* the holding directory by file names, and what was moved into it

\* The state of the permission helpers, of the scan cache, of the live search
\* screen's calls in flight, of the recent-files list and of the holding
\* directory of RecycleBin.ts seen by its file names.
appVars == <<perm, fileCache, live, recentFiles, holding>>

vars == <<impl, clock, files, dirs, bin, metaf, store, proc, active,
          ghost, calls, faults, lastPurged, binDir,
          denied, nostat, mtimes, fileIndex, searchResults, recentSearches, out, appVars>>

\* What no operation on recycled items changes.
cfg == <<impl, active, ghost, binDir,
         denied, nostat, mtimes, fileIndex, searchResults, recentSearches, out, appVars>>

\* Everything but the value returned and the application's own state.
deviceVars == <<impl, clock, files, dirs, bin, metaf, store, proc, active, ghost, calls,
                faults, lastPurged, binDir, denied, nostat, mtimes, fileIndex,
                searchResults, recentSearches>>

\* What no search, scan or listing changes.
recycleVars == <<impl, clock, files, dirs, bin, metaf, store, proc, active,
                 ghost, calls, faults, lastPurged, binDir, appVars>>

\* ---------------------------------------------------------------- helpers
\* The latest search, scan or listing: its name, argument and returned value.
NoOut == [op |-> "none", arg |-> <<>>, value |-> <<>>]

NoCache == [files |-> <<>>, lastUpdated |-> 0]

\* The application as installed: no flag stored, no alert shown, no access to
\* all files, nothing cached, no search in flight, no recent file.
\* The files moveToRecycleBin is called on in the study of the sidecar names:
\* /a, /b and /a.meta.
SidecarSources == {<<"/", "a">>, <<"/", "b">>, <<"/", "a", ".", "m", "e", "t", "a">>}

NoApp ==
    /\ perm = [verified |-> FALSE, shown |-> FALSE, access |-> FALSE, alerts |-> 0,
               pc |-> <<"idle", "idle">>]
    /\ fileCache = NoCache
    /\ live = [calls |-> <<>>, isSearching |-> FALSE, latest |-> <<>>]
    /\ recentFiles = <<>>
    /\ holding = [dir |-> <<>>, sources |-> SidecarSources, moved |-> {}]

\* No search, scan or listing has run; every directory is readable.
NoScan ==
    /\ denied = {}
    /\ nostat = {}
    /\ mtimes = <<>>
    /\ fileIndex = <<>>
    /\ searchResults = <<>>
    /\ recentSearches = <<>>
    /\ out = NoOut
    /\ NoApp

Range(s) == {s[i] : i \in DOMAIN s}

NoItem == [id |-> 0, originalPath |-> NoPath, originalName |-> "",
           recyclePath |-> <<0, "">>, deletedAt |-> 0, size |-> 0, type |-> ""]

NoMeta == [originalPath |-> NoPath, deletedAt |-> 0, fileName |-> ""]

Snapshot == [files |-> files, dirs |-> dirs, bin |-> bin, metaf |-> metaf,
             store |-> store, lastPurged |-> lastPurged, binDir |-> binDir]

NoSnap == [files |-> [p \in Paths |-> 0], dirs |-> {},
           bin |-> [b \in BinNames |-> 0], metaf |-> [b \in BinNames |-> NoMeta],
           store |-> <<>>, lastPurged |-> NoItem, binDir |-> FALSE]

IdleProc == [op |-> "idle", pc |-> "idle", path |-> NoPath, item |-> NoItem,
             items |-> <<>>, os |-> "", res |-> "none", snap |-> NoSnap]

\* filePath.split('/').pop() || ''
FileName(path) == path[2]

\* originalPath.substring(0, originalPath.lastIndexOf('/'))
OriginalDir(path) == path[1]

\* fileName.split('.').pop()?.toLowerCase() || 'unknown': the names of the
\* model hold no dot and no upper case, so the last segment is the name.
TypeOf(fileName) == IF fileName = "" THEN "unknown" ELSE fileName

\* `${RECYCLE_BIN_PATH}/${id}_${fileName}`: the id is a string of digits, so the
\* first '_' separates it from the name and the pair determines the string.
RecyclePath(id, fileName) == <<id, fileName>>

IsFile(path) == path \in Paths /\ files[path] # 0
IsDir(path) == path \in DirTargets /\ path[1] \in dirs

\* An awaited I/O call settles as its preconditions say, or rejects for a reason
\* outside the model while the budget of such rejections lasts.
IoOutcomes == IF faults > 0 THEN {TRUE, FALSE} ELSE {TRUE}
Charge(ok) == faults' = IF ok THEN faults ELSE faults - 1

\* Moving onto an existing destination: File.renameTo replaces it (Android),
\* NSFileManager refuses (iOS).  Both outcomes are kept.
Overwrites(destExists) == IF destExists THEN {TRUE, FALSE} ELSE {TRUE}

Begin(p, op, path, item, os) ==
    /\ p \in active
    /\ proc[p].op = "idle"
    /\ calls # 0
    /\ calls' = IF calls > 0 THEN calls - 1 ELSE calls
    /\ proc' = [proc EXCEPT ![p] = [op |-> op, pc |-> "start", path |-> path,
                                    item |-> item, items |-> <<>>, os |-> os,
                                    res |-> "none",
                                    snap |-> IF ghost THEN Snapshot ELSE NoSnap]]

At(p, op, pc) == proc[p].op = op /\ proc[p].pc = pc

Goto(p, pc) == proc' = [proc EXCEPT ![p].pc = pc]

Finish(p, res) == proc' = [proc EXCEPT ![p].pc = "done", ![p].res = res]

Quiet == \A p \in Procs : proc[p].op = "idle"

\* ---------------------------------------------------------------- environment
\* Date.now() advances between any two steps, or does not.
Tick ==
    /\ clock < MaxClock
    /\ clock' = clock + 1
    /\ UNCHANGED <<cfg, files, dirs, bin, metaf, store, proc, faults, lastPurged, calls>>

\* The user (or another app) puts a file where none is.
CreateFile ==
    /\ Quiet
    /\ \E path \in Paths, size \in 1..MaxSize :
          /\ path[1] \in dirs
          /\ files[path] = 0
          /\ files' = [files EXCEPT ![path] = size]
    /\ UNCHANGED <<cfg, clock, dirs, bin, metaf, store, proc, faults, lastPurged, calls>>

\* An empty directory is removed, or a missing one is made, outside the bin.
ToggleDir ==
    /\ Quiet
    /\ \E d \in Dirs :
          /\ \A path \in Paths : path[1] = d => files[path] = 0
          /\ dirs' = IF d \in dirs THEN dirs \ {d} ELSE dirs \cup {d}
    /\ UNCHANGED <<cfg, clock, files, bin, metaf, store, proc, faults, lastPurged,
                   calls>>

\* ---------------------------------------------------------------- AsyncStorage variant
\* A filter that drops every record of the item's base name instead.
RemoveByName(items, item) ==
    SelectSeq(items, LAMBDA i : i.originalName # item.originalName)

\* items.filter(i => i.id !== item.id)
RemoveById(items, item) == SelectSeq(items, LAMBDA i : i.id # item.id)

\* getRecycleBinItems: AsyncStorage.getItem and JSON.parse; a rejection is
\* caught and answered with [].
ReadItems(ok) == IF ok THEN store ELSE <<>>

KvMoveStart(p) ==
    /\ impl = "kv"
    /\ Len(store) < MaxItems
    /\ \E path \in Paths \cup DirTargets : Begin(p, "moveToRecycleBin", path, NoItem, "")
    /\ UNCHANGED <<cfg, clock, files, dirs, bin, metaf, store, faults, lastPurged>>

\* const fileInfo = await RNFS.stat(filePath); directories are refused
KvMoveStat(p) ==
    /\ At(p, "moveToRecycleBin", "start")
    /\ \E ok \in IoOutcomes :
          /\ Charge(ok)
          /\ LET path == proc[p].path IN
             IF ~ok \/ ~(IsFile(path) \/ IsDir(path)) THEN Finish(p, "false")
             ELSE IF IsDir(path) THEN Finish(p, "false")
             ELSE proc' = [proc EXCEPT ![p].pc = "move",
                                       ![p].item = [NoItem EXCEPT !.size = files[path]]]
    /\ UNCHANGED <<cfg, clock, files, dirs, bin, metaf, store, lastPurged, calls>>

\* id = Date.now().toString(); await RNFS.moveFile(filePath, recyclePath)
KvMoveFile(p) ==
    /\ At(p, "moveToRecycleBin", "move")
    /\ LET path == proc[p].path
           id == clock
           fileName == FileName(path)
           recyclePath == RecyclePath(id, fileName)
       IN \E ok \in IoOutcomes, ow \in Overwrites(bin[recyclePath] # 0) :
             /\ Charge(ok)
             /\ IF ok /\ ow /\ files[path] # 0
                THEN /\ files' = [files EXCEPT ![path] = 0]
                     /\ bin' = [bin EXCEPT ![recyclePath] = files[path]]
                     /\ proc' = [proc EXCEPT ![p].pc = "read",
                                   ![p].item = [proc[p].item EXCEPT
                                                   !.id = id,
                                                   !.originalPath = path,
                                                   !.originalName = fileName,
                                                   !.recyclePath = recyclePath,
                                                   !.type = TypeOf(fileName)]]
                ELSE /\ Finish(p, "false")
                     /\ UNCHANGED <<files, bin>>
    /\ UNCHANGED <<cfg, clock, dirs, metaf, store, lastPurged, calls>>

\* deletedAt: new Date().toISOString(); existingItems = await getRecycleBinItems()
KvMoveRead(p) ==
    /\ At(p, "moveToRecycleBin", "read")
    /\ \E ok \in IoOutcomes :
          /\ Charge(ok)
          /\ proc' = [proc EXCEPT ![p].pc = "write",
                                  ![p].item = [proc[p].item EXCEPT !.deletedAt = clock],
                                  ![p].items = ReadItems(ok)]
    /\ UNCHANGED <<cfg, clock, files, dirs, bin, metaf, store, lastPurged, calls>>

\* await AsyncStorage.setItem(KEY, JSON.stringify([...existingItems, item]))
KvMoveWrite(p) ==
    /\ At(p, "moveToRecycleBin", "write")
    /\ \E ok \in IoOutcomes :
          /\ Charge(ok)
          /\ IF ok THEN /\ store' = Append(proc[p].items, proc[p].item)
                        /\ Finish(p, "true")
                   ELSE /\ Finish(p, "false")
                        /\ UNCHANGED store
    /\ UNCHANGED <<cfg, clock, files, dirs, bin, metaf, lastPurged, calls>>

KvListStart(p) ==
    /\ impl = "kv"
    /\ Begin(p, "getRecycleBinItems", NoPath, NoItem, "")
    /\ UNCHANGED <<cfg, clock, files, dirs, bin, metaf, store, faults, lastPurged>>

KvListRead(p) ==
    /\ At(p, "getRecycleBinItems", "start")
    /\ \E ok \in IoOutcomes :
          /\ Charge(ok)
          /\ proc' = [proc EXCEPT ![p].pc = "done", ![p].res = "true",
                                  ![p].items = ReadItems(ok)]
    /\ UNCHANGED <<cfg, clock, files, dirs, bin, metaf, store, lastPurged, calls>>

KvRestoreStart(p) ==
    /\ impl = "kv"
    /\ \E item \in Range(store) : Begin(p, "restoreFromRecycleBin", NoPath, item, "")
    /\ UNCHANGED <<cfg, clock, files, dirs, bin, metaf, store, faults, lastPurged>>

\* originalDirExists = await RNFS.exists(originalDir)
KvRestoreExists(p) ==
    /\ At(p, "restoreFromRecycleBin", "start")
    /\ \E ok \in IoOutcomes :
          /\ Charge(ok)
          /\ IF ~ok THEN Finish(p, "false")
             ELSE IF OriginalDir(proc[p].item.originalPath) \in dirs THEN Goto(p, "move")
             ELSE Goto(p, "mkdir")
    /\ UNCHANGED <<cfg, clock, files, dirs, bin, metaf, store, lastPurged, calls>>

\* await RNFS.mkdir(originalDir)
KvRestoreMkdir(p) ==
    /\ At(p, "restoreFromRecycleBin", "mkdir")
    /\ \E ok \in IoOutcomes :
          /\ Charge(ok)
          /\ IF ok THEN /\ dirs' = dirs \cup {OriginalDir(proc[p].item.originalPath)}
                        /\ Goto(p, "move")
                   ELSE /\ Finish(p, "false")
                        /\ UNCHANGED dirs
    /\ UNCHANGED <<cfg, clock, files, bin, metaf, store, lastPurged, calls>>

\* await RNFS.moveFile(item.recyclePath, item.originalPath)
KvRestoreMove(p) ==
    /\ At(p, "restoreFromRecycleBin", "move")
    /\ LET item == proc[p].item
           from == item.recyclePath
           to == item.originalPath
       IN \E ok \in IoOutcomes, ow \in Overwrites(files[to] # 0) :
             /\ Charge(ok)
             /\ IF ok /\ ow /\ bin[from] # 0 /\ OriginalDir(to) \in dirs
                THEN /\ files' = [files EXCEPT ![to] = bin[from]]
                     /\ bin' = [bin EXCEPT ![from] = 0]
                     /\ Goto(p, "read")
                ELSE /\ Finish(p, "false")
                     /\ UNCHANGED <<files, bin>>
    /\ UNCHANGED <<cfg, clock, dirs, metaf, store, lastPurged, calls>>

\* const items = await getRecycleBinItems()
KvRestoreRead(p) ==
    /\ At(p, "restoreFromRecycleBin", "read")
    /\ \E ok \in IoOutcomes :
          /\ Charge(ok)
          /\ proc' = [proc EXCEPT ![p].pc = "write", ![p].items = ReadItems(ok)]
    /\ UNCHANGED <<cfg, clock, files, dirs, bin, metaf, store, lastPurged, calls>>

\* await AsyncStorage.setItem(KEY, JSON.stringify(updatedItems))
KvRestoreWrite(p) ==
    /\ At(p, "restoreFromRecycleBin", "write")
    /\ \E ok \in IoOutcomes :
          /\ Charge(ok)
          /\ IF ok THEN /\ store' = RemoveById(proc[p].items, proc[p].item)
                        /\ Finish(p, "true")
                   ELSE /\ Finish(p, "false")
                        /\ UNCHANGED store
    /\ UNCHANGED <<cfg, clock, files, dirs, bin, metaf, lastPurged, calls>>

\* The item references a caller holds: the listed items, and the item it purged
\* last (a reference gone stale).
Held == Range(store) \cup ({lastPurged} \ {NoItem})

KvDeleteStart(p) ==
    /\ impl = "kv"
    /\ \E item \in Held : Begin(p, "deleteFromRecycleBin", NoPath, item, "")
    /\ UNCHANGED <<cfg, clock, files, dirs, bin, metaf, store, faults, lastPurged>>

\* await RNFS.unlink(item.recyclePath): rejects when the file does not exist
KvDeleteUnlink(p) ==
    /\ At(p, "deleteFromRecycleBin", "start")
    /\ LET from == proc[p].item.recyclePath
       IN \E ok \in IoOutcomes :
             /\ Charge(ok)
             /\ IF ok /\ bin[from] # 0
                THEN /\ bin' = [bin EXCEPT ![from] = 0]
                     /\ Goto(p, "read")
                ELSE /\ Finish(p, "false")
                     /\ UNCHANGED bin
    /\ UNCHANGED <<cfg, clock, files, dirs, metaf, store, lastPurged, calls>>

KvDeleteRead(p) ==
    /\ At(p, "deleteFromRecycleBin", "read")
    /\ \E ok \in IoOutcomes :
          /\ Charge(ok)
          /\ proc' = [proc EXCEPT ![p].pc = "write", ![p].items = ReadItems(ok)]
    /\ UNCHANGED <<cfg, clock, files, dirs, bin, metaf, store, lastPurged, calls>>

KvDeleteWrite(p) ==
    /\ At(p, "deleteFromRecycleBin", "write")
    /\ \E ok \in IoOutcomes :
          /\ Charge(ok)
          /\ IF ok THEN /\ store' = RemoveById(proc[p].items, proc[p].item)
                        /\ lastPurged' = proc[p].item
                        /\ Finish(p, "true")
                   ELSE /\ Finish(p, "false")
                        /\ UNCHANGED <<store, lastPurged>>
    /\ UNCHANGED <<cfg, clock, files, dirs, bin, metaf, calls>>

KvEmptyStart(p) ==
    /\ impl = "kv"
    /\ Begin(p, "emptyRecycleBin", NoPath, NoItem, "")
    /\ UNCHANGED <<cfg, clock, files, dirs, bin, metaf, store, faults, lastPurged>>

\* const items = await getRecycleBinItems()
KvEmptyRead(p) ==
    /\ At(p, "emptyRecycleBin", "start")
    /\ \E ok \in IoOutcomes :
          /\ Charge(ok)
          /\ proc' = [proc EXCEPT ![p].pc = "unlink", ![p].items = ReadItems(ok)]
    /\ UNCHANGED <<cfg, clock, files, dirs, bin, metaf, store, lastPurged, calls>>

\* The unlink of items[i] settles: it is fulfilled when the file is there, no
\* rejection is injected and no earlier unlink of the list took the same file.
Unlinked(items, rejected) ==
    {i \in DOMAIN items :
        /\ i \notin rejected
        /\ bin[items[i].recyclePath] # 0
        /\ \A j \in 1..(i - 1) :
              j \in rejected \/ items[j].recyclePath # items[i].recyclePath}

\* await Promise.all(items.map(item => RNFS.unlink(item.recyclePath))): every
\* unlink is issued; the first rejection rejects the whole and skips the write.
KvEmptyUnlink(p) ==
    /\ At(p, "emptyRecycleBin", "unlink")
    /\ LET items == proc[p].items
       IN \E rejected \in SUBSET (DOMAIN items) :
             /\ Cardinality(rejected) <= faults
             /\ faults' = faults - Cardinality(rejected)
             /\ LET gone == Unlinked(items, rejected)
                IN /\ bin' = [b \in BinNames |->
                                 IF \E i \in gone : items[i].recyclePath = b
                                 THEN 0 ELSE bin[b]]
                   /\ IF gone = DOMAIN items THEN Goto(p, "write")
                      ELSE Finish(p, "false")
    /\ UNCHANGED <<cfg, clock, files, dirs, metaf, store, lastPurged, calls>>

\* await AsyncStorage.setItem(KEY, JSON.stringify([]))
KvEmptyWrite(p) ==
    /\ At(p, "emptyRecycleBin", "write")
    /\ \E ok \in IoOutcomes :
          /\ Charge(ok)
          /\ IF ok THEN /\ store' = <<>>
                        /\ Finish(p, "true")
                   ELSE /\ Finish(p, "false")
                        /\ UNCHANGED store
    /\ UNCHANGED <<cfg, clock, files, dirs, bin, metaf, lastPurged, calls>>

\* ---------------------------------------------------------------- sidecar variant
\* The paths a caller holds: what the holding directory shows, and the path it
\* purged last (a reference gone stale).
HeldPaths == {b \in BinNames : bin[b] # 0 \/ metaf[b] # NoMeta}
                \cup ({lastPurged.recyclePath} \cap BinNames)

\* fileName, timestamp = new Date().getTime(), newPath, metadata: computed before
\* the first await
ScMoveStart(p) ==
    /\ impl = "sidecar"
    /\ Cardinality({b \in BinNames : bin[b] # 0}) < MaxItems
    /\ \E path \in Paths :
          LET fileName == FileName(path)
              timestamp == clock
          IN Begin(p, "sc.moveToRecycleBin", path,
                   [NoItem EXCEPT !.originalPath = path,
                                  !.originalName = fileName,
                                  !.deletedAt = timestamp,
                                  !.recyclePath = RecyclePath(timestamp, fileName)],
                   "")
    /\ UNCHANGED <<cfg, clock, files, dirs, bin, metaf, store, faults, lastPurged>>

\* await FileSystem.moveAsync({from: path, to: newPath})
ScMoveFile(p) ==
    /\ At(p, "sc.moveToRecycleBin", "start")
    /\ LET path == proc[p].path
           newPath == proc[p].item.recyclePath
       IN \E ok \in IoOutcomes, ow \in Overwrites(bin[newPath] # 0) :
             /\ Charge(ok)
             /\ IF ok /\ ow /\ files[path] # 0
                THEN /\ files' = [files EXCEPT ![path] = 0]
                     /\ bin' = [bin EXCEPT ![newPath] = files[path]]
                     /\ Goto(p, "meta")
                ELSE /\ Finish(p, "threw")
                     /\ UNCHANGED <<files, bin>>
    /\ UNCHANGED <<cfg, clock, dirs, metaf, store, lastPurged, calls>>

\* await FileSystem.writeAsStringAsync(metadataPath, JSON.stringify(metadata))
ScMoveMeta(p) ==
    /\ At(p, "sc.moveToRecycleBin", "meta")
    /\ LET item == proc[p].item
       IN \E ok \in IoOutcomes :
             /\ Charge(ok)
             /\ IF ok
                THEN /\ metaf' = [metaf EXCEPT ![item.recyclePath] =
                                     [originalPath |-> item.originalPath,
                                      deletedAt |-> item.deletedAt,
                                      fileName |-> item.originalName]]
                     /\ Finish(p, "true")
                ELSE /\ Finish(p, "threw")
                     /\ UNCHANGED metaf
    /\ UNCHANGED <<cfg, clock, files, dirs, bin, store, lastPurged, calls>>

ScListStart(p) ==
    /\ impl = "sidecar"
    /\ Begin(p, "sc.getRecycleBinItems", NoPath, NoItem, "")
    /\ UNCHANGED <<cfg, clock, files, dirs, bin, metaf, store, faults, lastPurged>>

\* The orders a directory listing may come in.
Listings(S) == {seq \in UNION {[1..n -> S] : n \in {Cardinality(S)}} :
                   \A i, j \in DOMAIN seq : i # j => seq[i] # seq[j]}

\* items = await FileSystem.readDirectoryAsync(recycleBinPath), and the filter
\* that drops the names ending in '.meta'
ScListReadDir(p) ==
    /\ At(p, "sc.getRecycleBinItems", "start")
    /\ \E ok \in IoOutcomes :
          /\ Charge(ok)
          /\ IF ok
             THEN \E names \in Listings({b \in BinNames : bin[b] # 0}) :
                     proc' = [proc EXCEPT ![p].pc = "meta", ![p].items = names]
             ELSE Finish(p, "threw")
    /\ UNCHANGED <<cfg, clock, files, dirs, bin, metaf, store, lastPurged, calls>>

\* Promise.all over the names: readAsStringAsync of the sidecar, getInfoAsync of
\* the file; one missing sidecar rejects the whole listing.
ScListMeta(p) ==
    /\ At(p, "sc.getRecycleBinItems", "meta")
    /\ LET names == proc[p].items
       IN \E ok \in IoOutcomes :
             /\ Charge(ok)
             /\ IF ok /\ \A i \in DOMAIN names : metaf[names[i]] # NoMeta
                THEN proc' = [proc EXCEPT
                        ![p].pc = "done", ![p].res = "true",
                        ![p].items = [i \in DOMAIN names |->
                            [name |-> metaf[names[i]].fileName,
                             path |-> names[i],
                             originalPath |-> metaf[names[i]].originalPath,
                             deletedAt |-> metaf[names[i]].deletedAt,
                             size |-> bin[names[i]],
                             isFile |-> TRUE]]]
                ELSE Finish(p, "threw")
    /\ UNCHANGED <<cfg, clock, files, dirs, bin, metaf, store, lastPurged, calls>>

ScRestoreStart(p) ==
    /\ impl = "sidecar"
    /\ \E path \in HeldPaths :
          Begin(p, "sc.restoreFromRecycleBin", NoPath,
                [NoItem EXCEPT !.recyclePath = path], "")
    /\ UNCHANGED <<cfg, clock, files, dirs, bin, metaf, store, faults, lastPurged>>

\* metadata = JSON.parse(await FileSystem.readAsStringAsync(metadataPath))
ScRestoreMeta(p) ==
    /\ At(p, "sc.restoreFromRecycleBin", "start")
    /\ LET path == proc[p].item.recyclePath
       IN \E ok \in IoOutcomes :
             /\ Charge(ok)
             /\ IF ok /\ metaf[path] # NoMeta
                THEN proc' = [proc EXCEPT
                        ![p].pc = "info",
                        ![p].item = [proc[p].item EXCEPT
                                        !.originalPath = metaf[path].originalPath,
                                        !.originalName = metaf[path].fileName,
                                        !.deletedAt = metaf[path].deletedAt]]
                ELSE Finish(p, "threw")
    /\ UNCHANGED <<cfg, clock, files, dirs, bin, metaf, store, lastPurged, calls>>

\* if ((await FileSystem.getInfoAsync(metadata.originalPath)).exists) throw
ScRestoreInfo(p) ==
    /\ At(p, "sc.restoreFromRecycleBin", "info")
    /\ \E ok \in IoOutcomes :
          /\ Charge(ok)
          /\ IF ok /\ files[proc[p].item.originalPath] = 0
             THEN Goto(p, "move")
             ELSE Finish(p, "threw")
    /\ UNCHANGED <<cfg, clock, files, dirs, bin, metaf, store, lastPurged, calls>>

\* await FileSystem.moveAsync({from: path, to: metadata.originalPath})
ScRestoreMove(p) ==
    /\ At(p, "sc.restoreFromRecycleBin", "move")
    /\ LET from == proc[p].item.recyclePath
           to == proc[p].item.originalPath
       IN \E ok \in IoOutcomes, ow \in Overwrites(files[to] # 0) :
             /\ Charge(ok)
             /\ IF ok /\ ow /\ bin[from] # 0 /\ OriginalDir(to) \in dirs
                THEN /\ files' = [files EXCEPT ![to] = bin[from]]
                     /\ bin' = [bin EXCEPT ![from] = 0]
                     /\ Goto(p, "unmeta")
                ELSE /\ Finish(p, "threw")
                     /\ UNCHANGED <<files, bin>>
    /\ UNCHANGED <<cfg, clock, dirs, metaf, store, lastPurged, calls>>

\* await FileSystem.deleteAsync(metadataPath)
ScRestoreUnmeta(p) ==
    /\ At(p, "sc.restoreFromRecycleBin", "unmeta")
    /\ LET path == proc[p].item.recyclePath
       IN \E ok \in IoOutcomes :
             /\ Charge(ok)
             /\ IF ok /\ metaf[path] # NoMeta
                THEN /\ metaf' = [metaf EXCEPT ![path] = NoMeta]
                     /\ Finish(p, "true")
                ELSE /\ Finish(p, "threw")
                     /\ UNCHANGED metaf
    /\ UNCHANGED <<cfg, clock, files, dirs, bin, store, lastPurged, calls>>

ScPurgeStart(p) ==
    /\ impl = "sidecar"
    /\ \E path \in HeldPaths :
          Begin(p, "permanentlyDeleteFromRecycleBin", NoPath,
                [NoItem EXCEPT !.recyclePath = path], "")
    /\ UNCHANGED <<cfg, clock, files, dirs, bin, metaf, store, faults, lastPurged>>

\* await FileSystem.deleteAsync(path): not idempotent, a missing file rejects
ScPurgeFile(p) ==
    /\ At(p, "permanentlyDeleteFromRecycleBin", "start")
    /\ LET path == proc[p].item.recyclePath
       IN \E ok \in IoOutcomes :
             /\ Charge(ok)
             /\ IF ok /\ bin[path] # 0
                THEN /\ bin' = [bin EXCEPT ![path] = 0]
                     /\ Goto(p, "unmeta")
                ELSE /\ Finish(p, "threw")
                     /\ UNCHANGED bin
    /\ UNCHANGED <<cfg, clock, files, dirs, metaf, store, lastPurged, calls>>

\* await FileSystem.deleteAsync(metadataPath)
ScPurgeMeta(p) ==
    /\ At(p, "permanentlyDeleteFromRecycleBin", "unmeta")
    /\ LET path == proc[p].item.recyclePath
       IN \E ok \in IoOutcomes :
             /\ Charge(ok)
             /\ IF ok /\ metaf[path] # NoMeta
                THEN /\ metaf' = [metaf EXCEPT ![path] = NoMeta]
                     /\ lastPurged' = proc[p].item
                     /\ Finish(p, "true")
                ELSE /\ Finish(p, "threw")
                     /\ UNCHANGED <<metaf, lastPurged>>
    /\ UNCHANGED <<cfg, clock, files, dirs, bin, store, calls>>

\* ---------------------------------------------------------------- the recycle bin screen
\* The comparator with its operands exchanged: oldest first.
RECURSIVE SortOldestFirst(_)
SortOldestFirst(items) ==
    IF items = <<>> THEN <<>>
    ELSE LET x == items[Len(items)]
             done == SortOldestFirst(SubSeq(items, 1, Len(items) - 1))
             k == Cardinality({i \in DOMAIN done : done[i].deletedAt <= x.deletedAt})
         IN SubSeq(done, 1, k) \o <<x>> \o SubSeq(done, k + 1, Len(done))

\* recycleBinItems.sort((a, b) => new Date(b.deletedAt) - new Date(a.deletedAt)):
\* a stable sort, so records of one deletedAt keep their order.
RECURSIVE SortNewestFirst(_)
SortNewestFirst(items) ==
    IF items = <<>> THEN <<>>
    ELSE LET x == items[Len(items)]
             done == SortNewestFirst(SubSeq(items, 1, Len(items) - 1))
             k == Cardinality({i \in DOMAIN done : done[i].deletedAt >= x.deletedAt})
         IN SubSeq(done, 1, k) \o <<x>> \o SubSeq(done, k + 1, Len(done))

\* loadItems of RecycleBinScreen.tsx, over the AsyncStorage variant
LoadItemsStart(p) ==
    /\ impl = "kv"
    /\ Begin(p, "loadItems", NoPath, NoItem, "")
    /\ UNCHANGED <<cfg, clock, files, dirs, bin, metaf, store, faults, lastPurged>>

\* await getRecycleBinItems(); setItems(recycleBinItems.sort(...))
LoadItemsRead(p) ==
    /\ At(p, "loadItems", "start")
    /\ \E ok \in IoOutcomes :
          /\ Charge(ok)
          /\ proc' = [proc EXCEPT ![p].pc = "done", ![p].res = "true",
                                  ![p].items = SortNewestFirst(ReadItems(ok))]
    /\ UNCHANGED <<cfg, clock, files, dirs, bin, metaf, store, lastPurged, calls>>

\* ---------------------------------------------------------------- the explorer's delete
Platforms == {"android", "ios"}

\* FileExplorer.handleDeleteItem, on 'Delete': await deleteItem(item.path)
DeleteItemStart(p) ==
    /\ \E path \in Paths, os \in Platforms : Begin(p, "deleteItem", path, NoItem, os)
    /\ UNCHANGED <<cfg, clock, files, dirs, bin, metaf, store, faults, lastPurged>>

\* android: await RNFS.stat(path); otherwise getInfoAsync(path) and
\* 'Item does not exist' when it reports none
DeleteItemStat(p) ==
    /\ At(p, "deleteItem", "start")
    /\ \E ok \in IoOutcomes :
          /\ Charge(ok)
          /\ IF ok /\ files[proc[p].path] # 0 THEN Goto(p, "unlink")
             ELSE Finish(p, "threw")
    /\ UNCHANGED <<cfg, clock, files, dirs, bin, metaf, store, lastPurged, calls>>

\* await RNFS.unlink(path), on either platform
DeleteItemUnlink(p) ==
    /\ At(p, "deleteItem", "unlink")
    /\ LET path == proc[p].path
       IN \E ok \in IoOutcomes :
             /\ Charge(ok)
             /\ IF ok /\ files[path] # 0
                THEN /\ files' = [files EXCEPT ![path] = 0]
                     /\ Finish(p, "true")
                ELSE /\ Finish(p, "threw")
                     /\ UNCHANGED files
    /\ UNCHANGED <<cfg, clock, dirs, bin, metaf, store, lastPurged, calls>>

\* The earlier deleteItem of the same module.
LegacyDeleteItemStart(p) ==
    /\ \E path \in Paths : Begin(p, "legacy.deleteItem", path, NoItem, "")
    /\ UNCHANGED <<cfg, clock, files, dirs, bin, metaf, store, faults, lastPurged>>

\* info = await FileSystem.getInfoAsync(path); throws when it does not exist
LegacyDeleteItemInfo(p) ==
    /\ At(p, "legacy.deleteItem", "start")
    /\ \E ok \in IoOutcomes :
          /\ Charge(ok)
          /\ IF ok /\ files[proc[p].path] # 0 THEN Goto(p, "unlink")
             ELSE Finish(p, "threw")
    /\ UNCHANGED <<cfg, clock, files, dirs, bin, metaf, store, lastPurged, calls>>

\* await FileSystem.deleteAsync(path, {idempotent: true}); return true
LegacyDeleteItemDelete(p) ==
    /\ At(p, "legacy.deleteItem", "unlink")
    /\ \E ok \in IoOutcomes :
          /\ Charge(ok)
          /\ IF ok
             THEN /\ files' = [files EXCEPT ![proc[p].path] = 0]
                  /\ Finish(p, "true")
             ELSE /\ Finish(p, "threw")
                  /\ UNCHANGED files
    /\ UNCHANGED <<cfg, clock, dirs, bin, metaf, store, lastPurged, calls>>

\* ---------------------------------------------------------------- the caller
\* The awaiting caller resumes.
Return(p) ==
    /\ proc[p].pc = "done"
    /\ proc' = [proc EXCEPT ![p] = IdleProc]
    /\ UNCHANGED <<cfg, clock, files, dirs, bin, metaf, store, faults, lastPurged,
                   calls>>

\* ---------------------------------------------------------------- specifications
InitRecycle ==
    /\ clock = 1
    /\ files = [path \in Paths |-> 0]
    /\ dirs = Dirs
    /\ bin = [b \in BinNames |-> 0]
    /\ metaf = [b \in BinNames |-> NoMeta]
    /\ store = <<>>
    /\ proc = [p \in Procs |-> IdleProc]
    /\ lastPurged = NoItem
    /\ binDir = TRUE

InitCommon == InitRecycle /\ NoScan

\* One caller, calls issued one at a time, no injected I/O rejection.
Init ==
    /\ InitCommon
    /\ impl \in {"kv", "sidecar"}
    /\ active = SeqProcs
    /\ ghost = TRUE
    /\ calls = -1
    /\ faults = 0

Next ==
    \/ Tick
    \/ CreateFile
    \/ ToggleDir
    \/ \E p \in Procs :
          \/ KvMoveStart(p) \/ KvMoveStat(p) \/ KvMoveFile(p)
          \/ KvMoveRead(p) \/ KvMoveWrite(p)
          \/ KvListStart(p) \/ KvListRead(p)
          \/ LoadItemsStart(p) \/ LoadItemsRead(p)
          \/ KvRestoreStart(p) \/ KvRestoreExists(p) \/ KvRestoreMkdir(p)
          \/ KvRestoreMove(p) \/ KvRestoreRead(p) \/ KvRestoreWrite(p)
          \/ KvDeleteStart(p) \/ KvDeleteUnlink(p) \/ KvDeleteRead(p)
          \/ KvDeleteWrite(p)
          \/ KvEmptyStart(p) \/ KvEmptyRead(p) \/ KvEmptyUnlink(p)
          \/ KvEmptyWrite(p)
          \/ ScMoveStart(p) \/ ScMoveFile(p) \/ ScMoveMeta(p)
          \/ ScListStart(p) \/ ScListReadDir(p) \/ ScListMeta(p)
          \/ ScRestoreStart(p) \/ ScRestoreMeta(p) \/ ScRestoreInfo(p)
          \/ ScRestoreMove(p) \/ ScRestoreUnmeta(p)
          \/ ScPurgeStart(p) \/ ScPurgeFile(p) \/ ScPurgeMeta(p)
          \/ DeleteItemStart(p) \/ DeleteItemStat(p) \/ DeleteItemUnlink(p)
          \/ LegacyDeleteItemStart(p) \/ LegacyDeleteItemInfo(p)
          \/ LegacyDeleteItemDelete(p)
          \/ Return(p)

Spec == Init /\ [][Next]_vars

\* One caller, a few calls, with I/O rejections.
InitFault ==
    /\ InitCommon
    /\ impl \in {"kv", "sidecar"}
    /\ active = SeqProcs
    /\ ghost = FALSE
    /\ calls = MaxCalls
    /\ faults = MaxFaults

SpecFault == InitFault /\ [][Next]_vars

\* Two callers, a few calls, whose steps interleave.
InitConc ==
    /\ InitCommon
    /\ impl \in {"kv", "sidecar"}
    /\ active = ConcProcs
    /\ ghost = FALSE
    /\ calls = MaxCalls
    /\ faults = 0

SpecConc == InitConc /\ [][Next]_vars

\* ---------------------------------------------------------------- initializeRecycleBin
\* if (!exists): the directory is made only when it is missing.
NeedsMkdirFlipped(exists) == exists

NeedsMkdir(exists) == ~exists

\* ThemeContext.tsx: await RNFS.exists(RECYCLE_BIN_PATH); a rejection is caught
\* and logged, and the call returns normally.
KvInitStart(p) ==
    /\ impl = "kv"
    /\ Begin(p, "initializeRecycleBin", NoPath, NoItem, "")
    /\ UNCHANGED <<cfg, clock, files, dirs, bin, metaf, store, faults, lastPurged>>

KvInitExists(p) ==
    /\ At(p, "initializeRecycleBin", "start")
    /\ \E ok \in IoOutcomes :
          /\ Charge(ok)
          /\ IF ~ok THEN Finish(p, "caught")
             ELSE IF NeedsMkdir(binDir) THEN Goto(p, "mkdir")
             ELSE Finish(p, "true")
    /\ UNCHANGED <<cfg, clock, files, dirs, bin, metaf, store, lastPurged, calls>>

\* await RNFS.mkdir(RECYCLE_BIN_PATH)
KvInitMkdir(p) ==
    /\ At(p, "initializeRecycleBin", "mkdir")
    /\ \E ok \in IoOutcomes :
          /\ Charge(ok)
          /\ binDir' = (ok \/ binDir)
          /\ Finish(p, IF ok THEN "true" ELSE "caught")
    /\ UNCHANGED <<impl, active, ghost, clock, files, dirs, bin, metaf, store,
                   lastPurged, calls,
                   denied, nostat, mtimes, fileIndex, searchResults, recentSearches, out, appVars>>

\* RecycleBin.ts: getInfoAsync(recycleBinPath); no try/catch, a rejection
\* reaches the caller.
ScInitStart(p) ==
    /\ impl = "sidecar"
    /\ Begin(p, "sc.initializeRecycleBin", NoPath, NoItem, "")
    /\ UNCHANGED <<cfg, clock, files, dirs, bin, metaf, store, faults, lastPurged>>

ScInitInfo(p) ==
    /\ At(p, "sc.initializeRecycleBin", "start")
    /\ \E ok \in IoOutcomes :
          /\ Charge(ok)
          /\ IF ~ok THEN Finish(p, "threw")
             ELSE IF NeedsMkdir(binDir) THEN Goto(p, "mkdir")
             ELSE Finish(p, "true")
    /\ UNCHANGED <<cfg, clock, files, dirs, bin, metaf, store, lastPurged, calls>>

\* await FileSystem.makeDirectoryAsync(recycleBinPath, { intermediates: true })
ScInitMkdir(p) ==
    /\ At(p, "sc.initializeRecycleBin", "mkdir")
    /\ \E ok \in IoOutcomes :
          /\ Charge(ok)
          /\ binDir' = (ok \/ binDir)
          /\ Finish(p, IF ok THEN "true" ELSE "threw")
    /\ UNCHANGED <<impl, active, ghost, clock, files, dirs, bin, metaf, store,
                   lastPurged, calls,
                   denied, nostat, mtimes, fileIndex, searchResults, recentSearches, out, appVars>>

\* The records and sidecar files earlier calls can have left behind.
KvRecord(id, path, at, size) ==
    [id |-> id, originalPath |-> path, originalName |-> FileName(path),
     recyclePath |-> RecyclePath(id, FileName(path)), deletedAt |-> at,
     size |-> size, type |-> TypeOf(FileName(path))]

Records == {KvRecord(id, path, at, size) :
               id \in 1..MaxClock, path \in Paths, at \in 1..MaxClock,
               size \in 1..MaxSize}

MetasOf(b) == {NoMeta} \cup {[originalPath |-> path, deletedAt |-> b[1],
                              fileName |-> b[2]] : path \in {q \in Paths : q[2] = b[2]}}

\* The holding directory and the metadata as any earlier run can have left
\* them: missing, empty, or holding files and records that need not match
\* (a rejected write or unlink leaves either without the other).
InitAny ==
    /\ clock = 1
    /\ files = [path \in Paths |-> 0]
    /\ dirs = Dirs
    /\ proc = [p \in Procs |-> IdleProc]
    /\ lastPurged = NoItem
    /\ impl \in {"kv", "sidecar"}
    /\ active = SeqProcs
    /\ ghost = TRUE
    /\ calls = MaxCalls
    /\ faults = 0
    /\ binDir \in BOOLEAN
    /\ bin \in [BinNames -> 0..MaxSize]
    /\ metaf \in [BinNames -> UNION {MetasOf(b) : b \in BinNames}]
    /\ store \in {<<>>} \cup {<<r>> : r \in {x \in Records : x.id <= x.deletedAt}}
    /\ \A b \in BinNames : metaf[b] \in MetasOf(b)
    /\ ~binDir => \A b \in BinNames : bin[b] = 0 /\ metaf[b] = NoMeta
    /\ impl = "kv" => \A b \in BinNames : metaf[b] = NoMeta
    /\ impl = "sidecar" => store = <<>>
    /\ NoScan

NextInitBin ==
    \E p \in Procs :
        \/ KvInitStart(p) \/ KvInitExists(p) \/ KvInitMkdir(p)
        \/ ScInitStart(p) \/ ScInitInfo(p) \/ ScInitMkdir(p)
        \/ Return(p)

SpecInitBin == InitAny /\ [][NextInitBin]_vars

\* ---------------------------------------------------------------- strings
\* A string is the tuple of its characters.  The letters of the model: two of
\* them have an upper case.
Lower(c) == IF c = "A" THEN "a" ELSE IF c = "B" THEN "b" ELSE c

\* s.toLowerCase()
ToLowerCase(s) == [i \in DOMAIN s |-> Lower(s[i])]

\* s.includes(q)
Includes(s, q) == \E i \in 0..(Len(s) - Len(q)) : SubSeq(s, i + 1, i + Len(q)) = q

\* !query.trim(): nothing but white space
IsBlank(query) == \A i \in DOMAIN query : query[i] = " "

\* name.split('.').pop(): what follows the last '.', the whole name without one
LastSegment(name) ==
    LET dots == {i \in DOMAIN name : name[i] = "."}
    IN IF dots = {} THEN name
       ELSE SubSeq(name, (CHOOSE i \in dots : \A j \in dots : j <= i) + 1, Len(name))

\* The collation of localeCompare: white space and punctuation before the
\* letters, the letters in alphabetical order whatever their case, and at an
\* otherwise equal place the lower case first.
Collation == <<" ", ".", "/", "a", "b", "d", "f", "g", "j", "m", "n", "p", "s">>

Weight(c) == CHOOSE k \in DOMAIN Collation : Collation[k] = Lower(c)

CaseWeight(c) == IF Lower(c) = c THEN 0 ELSE 1

\* Whether a comes before b, place by place, a and b being the weights of two
\* strings' characters; a string comes after its proper prefixes.
LexLess(a, b) ==
    \E i \in DOMAIN b :
        /\ \A j \in 1..(i - 1) : j \in DOMAIN a /\ a[j] = b[j]
        /\ (i \in DOMAIN a => a[i] < b[i])
        /\ (i \notin DOMAIN a => Len(a) = i - 1)

\* a.localeCompare(b): negative, zero or positive
LocaleCompare(a, b) ==
    LET wa == [i \in DOMAIN a |-> Weight(a[i])]
        wb == [i \in DOMAIN b |-> Weight(b[i])]
        ca == [i \in DOMAIN a |-> CaseWeight(a[i])]
        cb == [i \in DOMAIN b |-> CaseWeight(b[i])]
    IN IF LexLess(wa, wb) THEN -1
       ELSE IF LexLess(wb, wa) THEN 1
       ELSE IF LexLess(ca, cb) THEN -1
       ELSE IF LexLess(cb, ca) THEN 1
       ELSE 0

RECURSIVE ConcatAll(_)
ConcatAll(seqs) == IF seqs = <<>> THEN <<>> ELSE Head(seqs) \o ConcatAll(Tail(seqs))

\* array.sort(cmp): a stable sort; less[i, j] stands for
\* cmp(items[i], items[j]) < 0 and entries neither of which is less than the
\* other keep their order.
SortBy(items, less) ==
    LET Before(j, i) == \/ less[j, i]
                        \/ (~less[i, j] /\ j < i)
        Place(i) == Cardinality({j \in DOMAIN items : Before(j, i)}) + 1
    IN [n \in DOMAIN items |-> items[CHOOSE i \in DOMAIN items : Place(i) = n]]

\* Array.from(new Map(items.map(x => [key(x), x])).values()), keys[i] being
\* the key of items[i]: one entry per key, at the place of the key's first
\* entry, holding the key's last entry.
UniqueByKey(items, keys) ==
    LET firsts == SelectSeq([i \in DOMAIN items |-> i],
                            LAMBDA i : \A j \in 1..(i - 1) : keys[j] # keys[i])
        LastOf(i) == CHOOSE j \in DOMAIN items :
                        /\ keys[j] = keys[i]
                        /\ \A k \in DOMAIN items : keys[k] = keys[i] => k <= j
    IN [n \in DOMAIN firsts |-> items[LastOf(firsts[n])]]

\* ---------------------------------------------------------------- the storage tree
MaxTime == 2       \* the modification times range over 1..MaxTime
MaxDenied == 1     \* directories that cannot be read, paths that cannot be stat'ed

Join(dir, name) == dir \o <<"/">> \o name

Storage == <<"/", "s">>                      \* RNFS.ExternalStorageDirectoryPath
DownloadDir == Join(Storage, <<"d">>)        \* RNFS.DownloadDirectoryPath
DocumentsDir == Join(Storage, <<"m">>)       \* .../Documents
DcimDir == Join(Storage, <<"p">>)            \* .../DCIM: not on this device
SubDir == Join(DownloadDir, <<"n">>)         \* a folder inside Download

TreeDirs == {Storage, DownloadDir, DocumentsDir, SubDir}

JpgLower == <<"a", ".", "j", "p", "g">>
JpgUpper == <<"A", ".", "j", "p", "g">>
PdfName == <<"a", "b", ".", "p", "d", "f">>

FilePaths == {Join(DownloadDir, JpgLower), Join(DownloadDir, PdfName),
              Join(SubDir, JpgUpper), Join(SubDir, PdfName),
              Join(DocumentsDir, JpgLower), Join(DocumentsDir, PdfName)}

\* A ReadDirItem of RNFS.readDir: name, path, size, mtime, isDirectory()
DirItem(dir, name) ==
    [name |-> name, path |-> Join(dir, name), size |-> 0, mtime |-> 1,
     isDirectory |-> TRUE]

FileItem(dir, name, size) ==
    [name |-> name, path |-> Join(dir, name), size |-> size,
     mtime |-> mtimes[Join(dir, name)], isDirectory |-> FALSE]

\* What is on the device: the same picture in Download and in Documents, a copy
\* of it under an upper-case name in a folder of Download, and the same
\* document in Download, in that folder and in Documents.
Listing(dir) ==
    IF dir = Storage THEN <<DirItem(Storage, <<"d">>), DirItem(Storage, <<"m">>)>>
    ELSE IF dir = DownloadDir
         THEN <<FileItem(DownloadDir, JpgLower, 1), FileItem(DownloadDir, PdfName, 2),
                DirItem(DownloadDir, <<"n">>)>>
    ELSE IF dir = SubDir
         THEN <<FileItem(SubDir, JpgUpper, 1), FileItem(SubDir, PdfName, 2)>>
    ELSE IF dir = DocumentsDir
         THEN <<FileItem(DocumentsDir, JpgLower, 1), FileItem(DocumentsDir, PdfName, 2)>>
    ELSE <<>>

\* await RNFS.readDir(dir) resolves; otherwise it rejects
Readable(dir) == dir \in TreeDirs /\ dir \notin denied

\* ---------------------------------------------------------------- SearchScreen
ResultCap == 2     \* results.slice(0, 100), on the scale of the model's tree
RecentCap == 2     \* [query, ...prev].slice(0, 5), on the same scale

ImageExts == {<<"j", "p", "g">>, <<"j", "p", "e", "g">>, <<"p", "n", "g">>,
              <<"g", "i", "f">>, <<"w", "e", "b", "p">>}
DocExts == {<<"p", "d", "f">>, <<"d", "o", "c">>, <<"d", "o", "c", "x">>,
            <<"t", "x", "t">>, <<"x", "l", "s", "x">>}

GetFileType(fileName) ==
    LET ext == LastSegment(ToLowerCase(fileName))
    IN IF ext \in ImageExts THEN "image"
       ELSE IF ext \in {<<"m", "p", "4">>, <<"m", "k", "v">>, <<"a", "v", "i">>,
                        <<"m", "o", "v">>} THEN "video"
       ELSE IF ext \in {<<"m", "p", "3">>, <<"w", "a", "v">>, <<"m", "4", "a">>,
                        <<"o", "g", "g">>} THEN "audio"
       ELSE IF ext \in DocExts THEN "document"
       ELSE IF ext = <<"a", "p", "k">> THEN "apk"
       ELSE "other"

\* The entry buildFileIndex pushes for an item.
IndexEntry(item) ==
    [name |-> ToLowerCase(item.name), displayName |-> item.name, path |-> item.path,
     size |-> item.size, modifiedTime |-> item.mtime,
     type |-> IF item.isDirectory THEN "folder" ELSE GetFileType(item.name),
     isDirectory |-> item.isDirectory]

\* The directories buildFileIndex walks, in its order.
IndexRoots == <<DownloadDir, DocumentsDir, DcimDir>>

\* One root: its items, and one level down the items of its folders; a
\* directory that cannot be read is logged and contributes nothing.
IndexOneLevel(dir) ==
    IF ~Readable(dir) THEN <<>>
    ELSE ConcatAll([i \in DOMAIN Listing(dir) |->
            LET item == Listing(dir)[i]
            IN <<IndexEntry(item)>> \o
               (IF item.isDirectory /\ Readable(item.path)
                THEN [k \in DOMAIN Listing(item.path) |-> IndexEntry(Listing(item.path)[k])]
                ELSE <<>>)])

\* buildFileIndex: the walk, the removal of duplicates by path, setFileIndex
BuildFileIndex ==
    /\ LET index == ConcatAll([r \in DOMAIN IndexRoots |-> IndexOneLevel(IndexRoots[r])])
       IN fileIndex' = UniqueByKey(index, [i \in DOMAIN index |-> index[i].path])
    /\ out' = [op |-> "buildFileIndex", arg |-> <<>>, value |-> <<>>]
    /\ UNCHANGED <<recycleVars, denied, nostat, mtimes, searchResults, recentSearches>>

Min(a, b) == IF a < b THEN a ELSE b

\* The queries typed: blank, a letter in upper case, a whole name, a folder's
\* name.
Queries == {<<" ">>, <<"A">>, JpgLower, <<"n">>}

\* item.name.includes(searchQuery) || item.path.toLowerCase().includes(searchQuery)
Matches(entry, searchQuery) ==
    Includes(entry.name, searchQuery) \/ Includes(ToLowerCase(entry.path), searchQuery)

\* The comparator of results.sort, as cmp(a, b) < 0: exact names first, then
\* by localeCompare of the names.
ExactFirst(a, b, searchQuery) ==
    LET aExact == a.name = searchQuery
        bExact == b.name = searchQuery
    IN IF aExact /\ ~bExact THEN TRUE
       ELSE IF ~aExact /\ bExact THEN FALSE
       ELSE LocaleCompare(a.name, b.name) < 0

\* The same comparator without its exact-match branches.
RankByNameOnly(index, searchQuery) ==
    LET results == SelectSeq(index, LAMBDA e : Matches(e, searchQuery))
        sorted == SortBy(results, [i, j \in DOMAIN results |->
                                     LocaleCompare(results[i].name, results[j].name) < 0])
    IN SubSeq(sorted, 1, Min(ResultCap, Len(sorted)))

\* filter, sort, slice(0, cap)
RankedResults(index, searchQuery) ==
    LET results == SelectSeq(index, LAMBDA e : Matches(e, searchQuery))
        sorted == SortBy(results, [i, j \in DOMAIN results |->
                                     ExactFirst(results[i], results[j], searchQuery)])
    IN SubSeq(sorted, 1, Min(ResultCap, Len(sorted)))

\* if (!recentSearches.includes(query)) setRecentSearches([query, ...prev].slice(0, cap))
Remember(query) ==
    IF query \in Range(recentSearches) THEN recentSearches
    ELSE SubSeq(<<query>> \o recentSearches, 1, Min(RecentCap, Len(recentSearches) + 1))

\* searchFiles of SearchScreen.tsx: it awaits nothing, so it runs in one step.
SearchFiles ==
    \E query \in Queries :
        /\ IF IsBlank(query)
           THEN /\ searchResults' = <<>>
                /\ UNCHANGED recentSearches
           ELSE /\ searchResults' = RankedResults(fileIndex, ToLowerCase(query))
                /\ recentSearches' = Remember(query)
        /\ out' = [op |-> "searchFiles", arg |-> query, value |-> <<>>]
        /\ UNCHANGED <<recycleVars, denied, nostat, mtimes, fileIndex>>

\* ---------------------------------------------------------------- the live search (part_005)
\* The directories searchFiles walks: the storage root and folders inside it.
LiveRoots == <<Storage, DownloadDir, DocumentsDir>>

\* The entry searchDirectory pushes for an item.
LiveEntry(item) ==
    [name |-> item.name, path |-> item.path, size |-> item.size,
     modifiedTime |-> item.mtime,
     type |-> IF item.isDirectory THEN "folder" ELSE GetFileType(item.name),
     isDirectory |-> item.isDirectory]

\* searchDirectory(directory): the items whose lower-cased name includes the
\* query, each folder walked in turn; a directory that cannot be read is
\* logged and contributes nothing.
RECURSIVE SearchDirectory(_, _)
SearchDirectory(directory, searchQuery) ==
    IF ~Readable(directory) THEN <<>>
    ELSE ConcatAll([i \in DOMAIN Listing(directory) |->
            LET item == Listing(directory)[i]
            IN (IF Includes(ToLowerCase(item.name), searchQuery)
                THEN <<LiveEntry(item)>> ELSE <<>>) \o
               (IF item.isDirectory THEN SearchDirectory(item.path, searchQuery)
                ELSE <<>>)])

\* The comparator of uniqueResults.sort, as cmp(a, b) < 0.
LiveExactFirst(a, b, searchQuery) ==
    LET aExact == ToLowerCase(a.name) = searchQuery
        bExact == ToLowerCase(b.name) = searchQuery
    IN IF aExact /\ ~bExact THEN TRUE
       ELSE IF ~aExact /\ bExact THEN FALSE
       ELSE LocaleCompare(a.name, b.name) < 0

\* Map by path, sort; the whole list is published.
LiveResults(results, searchQuery) ==
    LET unique == UniqueByKey(results, [i \in DOMAIN results |-> results[i].path])
    IN SortBy(unique, [i, j \in DOMAIN unique |->
                         LiveExactFirst(unique[i], unique[j], searchQuery)])

\* searchFiles of the live screen.  Promise.all starts one walk per root and
\* the walks interleave at their awaits; the published list depends on the
\* interleaving only through which of two entries of one name is pushed first,
\* and every such order is that of the walks pushing one after another in some
\* order of the roots.
LiveSearchFiles ==
    \E query \in Queries :
        /\ IF IsBlank(query)
           THEN /\ searchResults' = <<>>
                /\ UNCHANGED recentSearches
           ELSE \E order \in Permutations(DOMAIN LiveRoots) :
                   /\ searchResults' =
                         LiveResults(ConcatAll([n \in DOMAIN LiveRoots |->
                                        SearchDirectory(LiveRoots[order[n]],
                                                        ToLowerCase(query))]),
                                     ToLowerCase(query))
                   /\ recentSearches' = Remember(query)
        /\ out' = [op |-> "liveSearchFiles", arg |-> query, value |-> <<>>]
        /\ UNCHANGED <<recycleVars, denied, nostat, mtimes, fileIndex>>

\* The search screen as mounted: nothing indexed, searched or remembered; no
\* recycle-bin call is made.  Of the directories of the tree at most MaxDenied
\* cannot be read; the times of the files play no part in a search.
InitSearch ==
    /\ InitRecycle
    /\ impl = "kv"
    /\ active = {}
    /\ ghost = FALSE
    /\ calls = 0
    /\ faults = 0
    /\ denied \in {d \in SUBSET TreeDirs : Cardinality(d) <= MaxDenied}
    /\ mtimes = [path \in FilePaths |-> 1]
    /\ nostat = {}
    /\ fileIndex = <<>>
    /\ searchResults = <<>>
    /\ recentSearches = <<>>
    /\ out = NoOut
    /\ NoApp

NextSearch == BuildFileIndex \/ SearchFiles \/ LiveSearchFiles

SpecSearch == InitSearch /\ [][NextSearch]_vars

\* ---------------------------------------------------------------- the live search, call by call
MaxInFlight == 2

\* What is typed into the search box: two letters, three blanks, and the
\* beginnings of the two file names.
Texts == {<<"a", "b">>, <<" ", " ", " ">>, <<"a", ".", "j">>, <<"a", "b", ".">>}

\* What no keystroke and no search changes.
typingVars == <<impl, clock, files, dirs, bin, metaf, store, proc, active, ghost, calls,
                faults, lastPurged, binDir, denied, nostat, mtimes, fileIndex, perm,
                fileCache, recentFiles, holding>>

\* onChangeText: setSearchQuery(text) and, from three characters on,
\* searchFiles(text) up to its first await: a blank query empties the results
\* and returns; any other sets isSearching and starts the walks.  The call
\* keeps the recentSearches of the render it was made in (seen).  latest is
\* the query of the last call started, empty after a blank one.
OnChangeText ==
    \E text \in Texts :
        /\ IF Len(text) < 3
           THEN UNCHANGED <<live, searchResults>>
           ELSE IF IsBlank(text)
           THEN /\ searchResults' = <<>>
                /\ live' = [live EXCEPT !.latest = <<>>]
           ELSE /\ Len(live.calls) < MaxInFlight
                /\ live' = [calls |-> Append(live.calls,
                                             [query |-> text, seen |-> recentSearches]),
                            isSearching |-> TRUE, latest |-> text]
                /\ UNCHANGED searchResults
        /\ out' = [op |-> "onChangeText", arg |-> text, value |-> <<>>]
        /\ UNCHANGED <<typingVars, recentSearches>>

\* A call of searchFiles in flight runs from the end of its walks to its
\* return: setSearchResults, the recent searches (the test reads the list the
\* call has seen, the update the list as it is), and in the finally block
\* setIsSearching(false).  Calls finish in any order.
LiveSearchReturns ==
    \E n \in DOMAIN live.calls, order \in Permutations(DOMAIN LiveRoots) :
        LET call == live.calls[n]
            searchQuery == ToLowerCase(call.query)
        IN /\ searchResults' =
                  LiveResults(ConcatAll([r \in DOMAIN LiveRoots |->
                                  SearchDirectory(LiveRoots[order[r]], searchQuery)]),
                              searchQuery)
           /\ recentSearches' =
                  IF call.query \in Range(call.seen) THEN recentSearches
                  ELSE SubSeq(<<call.query>> \o recentSearches, 1,
                              Min(RecentCap, Len(recentSearches) + 1))
           /\ live' = [live EXCEPT
                         !.calls = SubSeq(live.calls, 1, n - 1) \o
                                   SubSeq(live.calls, n + 1, Len(live.calls)),
                         !.isSearching = FALSE]
           /\ out' = [op |-> "liveSearchReturns", arg |-> call.query, value |-> <<>>]
           /\ UNCHANGED typingVars

NextLive == OnChangeText \/ LiveSearchReturns

SpecLive == InitSearch /\ [][NextLive]_vars

\* ---------------------------------------------------------------- listings and scans
\* itemCount of a file, undefined, is written -1.

\* Directories first, then by localeCompare of the names.
DirsFirst(a, b) ==
    IF a.isDirectory /\ ~b.isDirectory THEN TRUE
    ELSE IF ~a.isDirectory /\ b.isDirectory THEN FALSE
    ELSE LocaleCompare(a.name, b.name) < 0

\* readDirectory on Android with one try around the whole loop: a child whose
\* stat rejects ends the listing with nothing.
AndroidChildrenUnguarded(path) ==
    IF \E n \in DOMAIN Listing(path) : Listing(path)[n].path \in nostat THEN <<>>
    ELSE [i \in DOMAIN Listing(path) |->
            [name |-> Listing(path)[i].name, path |-> Listing(path)[i].path,
             isDirectory |-> Listing(path)[i].isDirectory, size |-> Listing(path)[i].size,
             modifiedTime |-> Listing(path)[i].mtime,
             itemCount |-> IF ~Listing(path)[i].isDirectory THEN -1
                           ELSE IF Readable(Listing(path)[i].path)
                                THEN Len(Listing(Listing(path)[i].path))
                           ELSE 0]]

\* readDirectory on Android: RNFS.stat of each child, its itemCount by a
\* readDir of its own; a child whose stat rejects is logged and left out, a
\* folder that cannot be read counts no items.
AndroidChildren(path) ==
    LET kept == SelectSeq(Listing(path), LAMBDA c : c.path \notin nostat)
    IN [i \in DOMAIN kept |->
          [name |-> kept[i].name, path |-> kept[i].path,
           isDirectory |-> kept[i].isDirectory, size |-> kept[i].size,
           modifiedTime |-> kept[i].mtime,
           itemCount |-> IF ~kept[i].isDirectory THEN -1
                         ELSE IF Readable(kept[i].path) THEN Len(Listing(kept[i].path))
                         ELSE 0]]

\* readDirectory on iOS: getFileInfo of each child, which throws when
\* getInfoAsync rejects or the child is a folder that cannot be read; such a
\* child is logged and left out.  modifiedTime is the time of the call.
IosChildren(path) ==
    LET kept == SelectSeq(Listing(path),
                          LAMBDA c : /\ c.path \notin nostat
                                     /\ (c.isDirectory => Readable(c.path)))
    IN [i \in DOMAIN kept |->
          [name |-> kept[i].name, path |-> kept[i].path,
           isDirectory |-> kept[i].isDirectory, size |-> kept[i].size,
           modifiedTime |-> clock,
           itemCount |-> IF kept[i].isDirectory THEN Len(Listing(kept[i].path))
                         ELSE -1]]

\* readDirectory(path): the readDir of path itself is not guarded, its
\* rejection is rethrown.
ReadDirectory ==
    \E os \in Platforms, path \in TreeDirs \cup {DcimDir} :
        /\ LET fileItems == IF os = "android" THEN AndroidChildren(path)
                            ELSE IosChildren(path)
           IN out' = IF ~Readable(path)
                     THEN [op |-> "readDirectory.threw", arg |-> path, value |-> <<>>]
                     ELSE [op |-> "readDirectory", arg |-> path,
                           value |-> SortBy(fileItems,
                                            [i, j \in DOMAIN fileItems |->
                                               DirsFirst(fileItems[i], fileItems[j])])]
        /\ UNCHANGED <<recycleVars, denied, nostat, mtimes, fileIndex, searchResults,
                       recentSearches>>

\* The FileItem scanFilesOptimized, loadImages and loadDocumentBatch build.
ScanItem(item) ==
    [name |-> item.name, path |-> item.path, isDirectory |-> item.isDirectory,
     size |-> item.size, modifiedTime |-> item.mtime]

\* fileTypes.includes(name.toLowerCase().split('.').pop())
HasType(item, fileTypes) == LastSegment(ToLowerCase(item.name)) \in fileTypes

\* One directory of scanFilesOptimized: its files of the wanted types, in
\* order (the batches are appended in order); a directory that cannot be read
\* is logged and adds nothing.
ScanOne(dir, fileTypes) ==
    IF ~Readable(dir) THEN <<>>
    ELSE LET kept == SelectSeq(Listing(dir),
                               LAMBDA c : ~c.isDirectory /\ HasType(c, fileTypes))
         IN [i \in DOMAIN kept |-> ScanItem(kept[i])]

CacheExpiry == 1    \* CACHE_EXPIRY, five minutes, on the scale of the model's clock

\* The snapshot is served up to and at its expiry.
StillValidAtExpiry(now, cache) == now - cache.lastUpdated <= CacheExpiry

\* now - cache.lastUpdated < CACHE_EXPIRY
StillValid(now, cache) == now - cache.lastUpdated < CacheExpiry

\* scanFilesOptimized(directories, fileTypes, useCache).  With useCache the
\* entry 'fileCache' is read first and, while valid, its files of the wanted
\* types are returned; otherwise the directories are walked and, with
\* useCache, the files found are stored with the time the walk began (the
\* per-directory part of the entry is never read and is left out).  A
\* rejection by AsyncStorage (io) is caught and [] is returned.  The record
\* keeps the time of the call and the entry found and left.
ScanFilesOptimized(useCache) ==
    \E directories \in {<<DownloadDir, DocumentsDir>>, <<DcimDir, SubDir, DocumentsDir>>},
       fileTypes \in {ImageExts, DocExts}, io \in {"ok", "throws"} :
        LET serve == useCache /\ fileCache # NoCache /\ StillValid(clock, fileCache)
            allFiles == ConcatAll([d \in DOMAIN directories |->
                                      ScanOne(directories[d], fileTypes)])
            left == IF useCache /\ io = "ok" /\ ~serve
                    THEN [files |-> allFiles, lastUpdated |-> clock]
                    ELSE fileCache
        IN /\ ~useCache => io = "ok"
           /\ fileCache' = left
           /\ out' = [op |-> "scanFilesOptimized",
                      arg |-> [directories |-> directories, fileTypes |-> fileTypes,
                               useCache |-> useCache, io |-> io, now |-> clock,
                               found |-> fileCache, left |-> left],
                      value |-> IF io = "throws" THEN <<>>
                                ELSE IF serve
                                THEN SelectSeq(fileCache.files,
                                               LAMBDA file : HasType(file, fileTypes))
                                ELSE allFiles]
           /\ UNCHANGED <<deviceVars, perm, live, recentFiles, holding>>

\* clearFileCache: removeItem('fileCache'); a rejection is caught.
ClearFileCache ==
    \E io \in {"ok", "throws"} :
        /\ fileCache' = IF io = "ok" THEN NoCache ELSE fileCache
        /\ out' = [op |-> "clearFileCache", arg |-> [io |-> io], value |-> <<>>]
        /\ UNCHANGED <<deviceVars, perm, live, recentFiles, holding>>

\* The device as a scan with the cache finds it, and as it stays: of the
\* directories of the tree at most MaxDenied cannot be read.
InitCache ==
    /\ InitRecycle
    /\ impl = "kv"
    /\ active = {}
    /\ ghost = FALSE
    /\ calls = 0
    /\ faults = 0
    /\ denied \in {d \in SUBSET TreeDirs : Cardinality(d) <= MaxDenied}
    /\ mtimes = [path \in FilePaths |-> 1]
    /\ nostat = {}
    /\ fileIndex = <<>>
    /\ searchResults = <<>>
    /\ recentSearches = <<>>
    /\ out = NoOut
    /\ NoApp

NextCache ==
    \/ \E useCache \in BOOLEAN : ScanFilesOptimized(useCache)
    \/ ClearFileCache
    \/ Tick

SpecCache == InitCache /\ [][NextCache]_vars

\* ---------------------------------------------------------------- ImageGallery
\* The directories loadImages walks, in its order: DCIM, Download, the storage
\* root.
ImageRoots == <<DcimDir, DownloadDir, Storage>>

\* The items of a listing loadImages keeps: an image extension.
ImageFiles(items) ==
    LET kept == SelectSeq(items, LAMBDA c : HasType(c, ImageExts))
    IN [i \in DOMAIN kept |-> ScanItem(kept[i])]

\* One root: its images, then those of each of its folders; a directory or a
\* folder that cannot be read is logged and adds nothing.
ImagesOneLevel(dir) ==
    IF ~Readable(dir) THEN <<>>
    ELSE ImageFiles(Listing(dir)) \o
         ConcatAll([i \in DOMAIN Listing(dir) |->
            LET item == Listing(dir)[i]
            IN IF item.isDirectory /\ Readable(item.path)
               THEN ImageFiles(Listing(item.path)) ELSE <<>>])

\* `${file.name.toLowerCase()}-${file.size}`
NameSizeKey(file) == <<ToLowerCase(file.name), file.size>>

\* allFiles.forEach into seenFiles, then Array.from(seenFiles.values()): a key
\* keeps its place; its file is replaced by a strictly newer one.
RECURSIVE SeenFiles(_)
SeenFiles(allFiles) ==
    IF allFiles = <<>> THEN <<>>
    ELSE LET seen == SeenFiles(SubSeq(allFiles, 1, Len(allFiles) - 1))
             file == allFiles[Len(allFiles)]
         IN IF \E i \in DOMAIN seen : NameSizeKey(seen[i]) = NameSizeKey(file)
            THEN [i \in DOMAIN seen |->
                    IF /\ NameSizeKey(seen[i]) = NameSizeKey(file)
                       /\ file.modifiedTime > seen[i].modifiedTime
                    THEN file ELSE seen[i]]
            ELSE Append(seen, file)

\* sortFiles(filesToSort, option, ascending)
SortFiles(filesToSort, option, ascending) ==
    LET Comparison(a, b) ==
            IF option = "name" THEN LocaleCompare(a.name, b.name)
            ELSE IF option = "date" THEN a.modifiedTime - b.modifiedTime
            ELSE a.size - b.size
    IN SortBy(filesToSort,
              [i, j \in DOMAIN filesToSort |->
                 IF ascending THEN Comparison(filesToSort[i], filesToSort[j]) < 0
                 ELSE 0 - Comparison(filesToSort[i], filesToSort[j]) < 0])

\* loadImages: on Android the permission request first, and nothing is set
\* when it is not granted; then the walk, seenFiles, sortFiles, setFiles.
LoadImages ==
    \E os \in Platforms, granted \in BOOLEAN, sortBy \in {"name", "date", "size"},
       sortAscending \in BOOLEAN :
        /\ out' = IF os = "android" /\ ~granted
                  THEN [op |-> "loadImages.denied", arg |-> <<>>, value |-> <<>>]
                  ELSE [op |-> "loadImages", arg |-> <<>>,
                        value |-> SortFiles(SeenFiles(ConcatAll(
                                      [r \in DOMAIN ImageRoots |->
                                          ImagesOneLevel(ImageRoots[r])])),
                                      sortBy, sortAscending)]
        /\ UNCHANGED <<recycleVars, denied, nostat, mtimes, fileIndex, searchResults,
                       recentSearches>>

\* ---------------------------------------------------------------- DocumentGallery
DocBatchSize == 2     \* BATCH_SIZE = 50, on the scale of the model's tree

\* DOCUMENT_EXTENSIONS
DocumentExtensions ==
    {<<"p", "d", "f">>, <<"d", "o", "c">>, <<"d", "o", "c", "x">>, <<"t", "x", "t">>,
     <<"x", "l", "s">>, <<"x", "l", "s", "x">>, <<"p", "p", "t">>, <<"p", "p", "t", "x">>}

\* The directories loadDocumentBatch walks: RNFS.DownloadDirectoryPath,
\* Documents, and Download under the storage root, which is the first again.
DocumentRoots == <<DownloadDir, DocumentsDir, DownloadDir>>

\* One directory: its documents (the type label, which plays no part in the
\* keys or the order, is left out); one that cannot be read adds nothing.
DocumentsOf(dir) ==
    IF ~Readable(dir) THEN <<>>
    ELSE LET kept == SelectSeq(Listing(dir), LAMBDA c : HasType(c, DocumentExtensions))
         IN [i \in DOMAIN kept |->
               [name |-> kept[i].name, path |-> kept[i].path, size |-> kept[i].size,
                modifiedTime |-> kept[i].mtime]]

\* The catalogue: Map by `${file.name}-${file.size}`, newest first.
UniqueDocuments ==
    LET allFiles == ConcatAll([r \in DOMAIN DocumentRoots |->
                                  DocumentsOf(DocumentRoots[r])])
        uniqueFiles == UniqueByKey(allFiles, [i \in DOMAIN allFiles |->
                                                <<allFiles[i].name, allFiles[i].size>>])
    IN SortBy(uniqueFiles, [i, j \in DOMAIN uniqueFiles |->
                              uniqueFiles[j].modifiedTime - uniqueFiles[i].modifiedTime < 0])

\* loadDocumentBatch(startIndex): the slice of the catalogue from startIndex
LoadDocumentBatch ==
    \E startIndex \in {0, DocBatchSize} :
        LET batchEnd == Min(startIndex + DocBatchSize, Len(UniqueDocuments))
        IN /\ out' = [op |-> "loadDocumentBatch", arg |-> startIndex,
                      value |-> [items |-> SubSeq(UniqueDocuments, startIndex + 1, batchEnd),
                                 hasMore |-> batchEnd < Len(UniqueDocuments)]]
           /\ UNCHANGED <<recycleVars, denied, nostat, mtimes, fileIndex, searchResults,
                          recentSearches>>

\* ---------------------------------------------------------------- the scans' specification
\* The device as a scan finds it: at most MaxDenied directories cannot be
\* read, the picture in Download can be stat'ed or not, its copy in Documents
\* carries any time, and the document in Documents is the newest file.
InitScan ==
    /\ InitRecycle
    /\ impl = "kv"
    /\ active = {}
    /\ ghost = FALSE
    /\ calls = 0
    /\ faults = 0
    /\ denied \in {d \in SUBSET TreeDirs : Cardinality(d) <= MaxDenied}
    /\ nostat \in SUBSET {Join(DownloadDir, JpgLower)}
    /\ mtimes \in {t \in [FilePaths -> 1..MaxTime] :
                      /\ t[Join(DownloadDir, JpgLower)] = 1
                      /\ t[Join(SubDir, JpgUpper)] = 1
                      /\ t[Join(SubDir, PdfName)] = 1
                      /\ t[Join(DownloadDir, PdfName)] = 1
                      /\ t[Join(DocumentsDir, PdfName)] = MaxTime}
    /\ fileIndex = <<>>
    /\ searchResults = <<>>
    /\ recentSearches = <<>>
    /\ out = NoOut
    /\ NoApp

NextScan ==
    \/ BuildFileIndex
    \/ ReadDirectory
    \/ ScanFilesOptimized(FALSE)
    \/ LoadImages
    \/ LoadDocumentBatch

SpecScan == InitScan /\ [][NextScan]_vars

\* ---------------------------------------------------------------- file operations
\* FileManagement.ts declares createFolder, createFile, renameItem, copyItem,
\* moveItem and deleteItem twice: first over expo-file-system alone, then
\* again ("enhanced") over react-native-fs on Android.  Either declaration may
\* be the one a build binds, so both are operations of the model (the first
\* under the prefix Legacy).  Each operation is one step here and records the
\* calls it made, in order, and how it ended.

\* What no file operation changes.
otherVars == <<impl, clock, bin, metaf, store, proc, active, ghost, calls, faults,
               lastPurged, binDir, denied, nostat, mtimes, fileIndex, searchResults,
               recentSearches, appVars>>

\* The record of an operation: its arguments, whether the storage permission
\* is granted on the device, the calls made and the outcome.
Log(op, from, to, overwrite, granted, made, res) ==
    [op |-> op,
     arg |-> [from |-> from, to |-> to, overwrite |-> overwrite, granted |-> granted],
     value |-> [calls |-> made, res |-> res]]

\* An operation that makes the calls `checks`, throws after them when `stop`,
\* and otherwise awaits `call`, which resolves (when it can) with the files
\* and directories as given, or rejects and is rethrown.
Perform(op, from, to, overwrite, granted, checks, stop, call, can, files2, dirs2) ==
    \E ok \in BOOLEAN :
        IF stop
        THEN /\ out' = Log(op, from, to, overwrite, granted, checks, "threw")
             /\ UNCHANGED <<files, dirs>>
        ELSE IF ok /\ can
        THEN /\ out' = Log(op, from, to, overwrite, granted, Append(checks, call), "ok")
             /\ files' = files2
             /\ dirs' = dirs2
        ELSE /\ out' = Log(op, from, to, overwrite, granted, Append(checks, call), "threw")
             /\ UNCHANGED <<files, dirs>>

\* to holds what from held, from holds nothing
Moved(from, to) == [files EXCEPT ![to] = files[from], ![from] = 0]

\* The first declarations (expo-file-system).
LegacyCreateFolder ==
    \E d \in Dirs, granted \in BOOLEAN :
        /\ Perform("legacy.createFolder", NoPath, <<d, "">>, FALSE, granted,
                   <<>>, FALSE, "makeDirectoryAsync", TRUE, files, dirs \cup {d})
        /\ UNCHANGED otherVars

LegacyCreateFile ==
    \E path \in Paths, size \in 1..MaxSize, granted \in BOOLEAN :
        /\ Perform("legacy.createFile", NoPath, path, FALSE, granted,
                   <<>>, FALSE, "writeAsStringAsync", path[1] \in dirs,
                   [files EXCEPT ![path] = size], dirs)
        /\ UNCHANGED otherVars

LegacyRenameItem ==
    \E from \in Paths : \E to \in Paths \ {from}, granted \in BOOLEAN :
        /\ Perform("legacy.renameItem", from, to, FALSE, granted,
                   <<>>, FALSE, "moveAsync", files[from] # 0 /\ to[1] \in dirs,
                   Moved(from, to), dirs)
        /\ UNCHANGED otherVars

\* toInfo = await getInfoAsync(toPath); if (toInfo.exists && !overwrite) throw
LegacyCopyItem ==
    \E from \in Paths : \E to \in Paths \ {from}, overwrite \in BOOLEAN, granted \in BOOLEAN :
        /\ Perform("legacy.copyItem", from, to, overwrite, granted,
                   <<"getInfoAsync">>, files[to] # 0 /\ ~overwrite,
                   "copyAsync", files[from] # 0 /\ to[1] \in dirs,
                   [files EXCEPT ![to] = files[from]], dirs)
        /\ UNCHANGED otherVars

LegacyMoveItem ==
    \E from \in Paths : \E to \in Paths \ {from}, overwrite \in BOOLEAN, granted \in BOOLEAN :
        /\ Perform("legacy.moveItem", from, to, overwrite, granted,
                   <<"getInfoAsync">>, files[to] # 0 /\ ~overwrite,
                   "moveAsync", files[from] # 0 /\ to[1] \in dirs,
                   Moved(from, to), dirs)
        /\ UNCHANGED otherVars

\* info = await getInfoAsync(path); if (!info.exists) throw; deleteAsync
LegacyDeleteItem ==
    \E path \in Paths, granted \in BOOLEAN :
        /\ Perform("legacy.deleteItem", NoPath, path, FALSE, granted,
                   <<"getInfoAsync">>, files[path] = 0,
                   "deleteAsync", TRUE, [files EXCEPT ![path] = 0], dirs)
        /\ UNCHANGED otherVars

\* The later declarations.
CreateFileAt ==
    \E path \in Paths, size \in 1..MaxSize, os \in Platforms, granted \in BOOLEAN :
        /\ Perform("createFile", NoPath, path, FALSE, granted, <<>>, FALSE,
                   IF os = "android" THEN "writeFile" ELSE "writeAsStringAsync",
                   path[1] \in dirs, [files EXCEPT ![path] = size], dirs)
        /\ UNCHANGED otherVars

CreateDirectory ==
    \E d \in Dirs, os \in Platforms, granted \in BOOLEAN :
        /\ Perform("createDirectory", NoPath, <<d, "">>, FALSE, granted, <<>>, FALSE,
                   IF os = "android" THEN "mkdir" ELSE "makeDirectoryAsync",
                   TRUE, files, dirs \cup {d})
        /\ UNCHANGED otherVars

RenameItem ==
    \E from \in Paths : \E to \in Paths \ {from}, os \in Platforms, granted \in BOOLEAN :
        /\ Perform("renameItem", from, to, FALSE, granted, <<>>, FALSE,
                   IF os = "android" THEN "moveFile" ELSE "moveAsync",
                   files[from] # 0 /\ to[1] \in dirs, Moved(from, to), dirs)
        /\ UNCHANGED otherVars

\* stat (Android) or getInfoAsync, 'Item does not exist'; then RNFS.unlink
DeleteItem ==
    \E path \in Paths, os \in Platforms, granted \in BOOLEAN :
        /\ Perform("deleteItem", NoPath, path, FALSE, granted,
                   IF os = "android" THEN <<"stat">> ELSE <<"getInfoAsync">>,
                   files[path] = 0, "unlink", TRUE, [files EXCEPT ![path] = 0], dirs)
        /\ UNCHANGED otherVars

\* checkAndRequestPermissions() first; 'Storage permissions not granted'
CreateFolder ==
    \E d \in Dirs, os \in Platforms, granted \in BOOLEAN :
        /\ Perform("createFolder", NoPath, <<d, "">>, FALSE, granted,
                   <<"checkAndRequestPermissions">>, ~granted,
                   IF os = "android" THEN "mkdir" ELSE "makeDirectoryAsync",
                   TRUE, files, dirs \cup {d})
        /\ UNCHANGED otherVars

\* Android: stat(fromPath), then copyFile; otherwise readAsStringAsync, then
\* writeAsStringAsync.  overwrite is not read.
CopyItem ==
    \E from \in Paths : \E to \in Paths \ {from}, overwrite \in BOOLEAN, os \in Platforms,
       granted \in BOOLEAN :
        /\ Perform("copyItem", from, to, overwrite, granted,
                   IF os = "android" THEN <<"stat">> ELSE <<"readAsStringAsync">>,
                   files[from] = 0,
                   IF os = "android" THEN "copyFile" ELSE "writeAsStringAsync",
                   to[1] \in dirs, [files EXCEPT ![to] = files[from]], dirs)
        /\ UNCHANGED otherVars

\* RNFS.moveFile or FileSystem.moveAsync.  overwrite is not read.
MoveItem ==
    \E from \in Paths : \E to \in Paths \ {from}, overwrite \in BOOLEAN, os \in Platforms,
       granted \in BOOLEAN :
        /\ Perform("moveItem", from, to, overwrite, granted, <<>>, FALSE,
                   IF os = "android" THEN "moveFile" ELSE "moveAsync",
                   files[from] # 0 /\ to[1] \in dirs, Moved(from, to), dirs)
        /\ UNCHANGED otherVars

\* The explorer over any files: each directory is there or not, each place in
\* a directory that is there holds a file or none.
InitFileOps ==
    /\ clock = 1
    /\ dirs \in SUBSET Dirs
    /\ files \in {f \in [Paths -> 0..MaxSize] :
                     \A path \in Paths : f[path] # 0 => path[1] \in dirs}
    /\ bin = [b \in BinNames |-> 0]
    /\ metaf = [b \in BinNames |-> NoMeta]
    /\ store = <<>>
    /\ proc = [p \in Procs |-> IdleProc]
    /\ lastPurged = NoItem
    /\ binDir = TRUE
    /\ impl = "kv"
    /\ active = {}
    /\ ghost = FALSE
    /\ calls = 0
    /\ faults = 0
    /\ NoScan

NextFileOps ==
    \/ LegacyCreateFolder
    \/ LegacyCreateFile
    \/ LegacyRenameItem
    \/ LegacyCopyItem
    \/ LegacyMoveItem
    \/ LegacyDeleteItem
    \/ CreateFileAt
    \/ CreateDirectory
    \/ RenameItem
    \/ DeleteItem
    \/ CreateFolder
    \/ CopyItem
    \/ MoveItem

SpecFileOps == InitFileOps /\ [][NextFileOps]_vars

\* ---------------------------------------------------------------- permissions
\* The application started on a device with no file of the explorer's and no
\* call in flight.
InitApp ==
    /\ InitRecycle
    /\ impl = "kv"
    /\ active = {}
    /\ ghost = FALSE
    /\ calls = 0
    /\ faults = 0
    /\ NoScan

MaxAlerts == 2     \* instruction alerts counted between two resets

\* How a platform permission call ends: with a status, or rejected.
PermOutcomes == {"granted", "denied", "undetermined", "throws"}

\* checkAndRequestPermissions.  On Android 13+ requestMultiple (r1) decides; on
\* older versions request of READ (r1) and WRITE (r2), then the media library
\* (r3).  Once storage is granted the 'Full Access Required' alert is shown,
\* whatever was shown before.  made: the outcomes of the calls awaited.
CheckAndRequestPermissions ==
    \E os \in Platforms, v33 \in BOOLEAN, r1, r2, r3 \in PermOutcomes :
        LET storage == r1 = "granted" /\ (v33 \/ r2 = "granted")
            made == IF os = "ios" THEN <<>>
                    ELSE IF v33 \/ r1 = "throws" THEN <<r1>>
                    ELSE IF storage THEN <<r1, r2, r3>>
                    ELSE <<r1, r2>>
            instructed == os = "android" /\ storage
        IN /\ instructed => perm.alerts < MaxAlerts
           /\ perm' = [perm EXCEPT !.alerts = IF instructed THEN @ + 1 ELSE @]
           /\ out' = [op |-> "checkAndRequestPermissions",
                      arg |-> [os |-> os, made |-> made],
                      value |-> (os = "ios" \/ (storage /\ (v33 \/ r3 = "granted")))]
           /\ UNCHANGED <<deviceVars, fileCache, live, recentFiles, holding>>

\* The catch clause never entered.
ThrewUncaught(made) == FALSE

\* Whether one of the calls awaited rejected, which the catch clause answers.
Threw(made) == \E i \in DOMAIN made : made[i] = "throws"

\* checkPermissionsStatus: requestMultiple (r1), or check of READ (r1) and of
\* WRITE (r2); then MediaLibrary.getPermissionsAsync (r3).  Any rejection is
\* caught and reported as nothing granted.
CheckPermissionsStatus ==
    \E os \in Platforms, v33 \in BOOLEAN, r1, r2, r3 \in PermOutcomes :
        LET made == IF os = "ios" THEN <<>>
                    ELSE IF r1 = "throws" THEN <<r1>>
                    ELSE IF v33 THEN <<r1, r3>>
                    ELSE IF r2 = "throws" THEN <<r1, r2>>
                    ELSE <<r1, r2, r3>>
            threw == Threw(made)
            storage == ~threw /\ r1 = "granted" /\ (v33 \/ r2 = "granted")
            media == ~threw /\ r3 = "granted"
        IN /\ out' = [op |-> "checkPermissionsStatus",
                      arg |-> [os |-> os, made |-> made],
                      value |-> IF os = "ios"
                                THEN [storage |-> TRUE, media |-> TRUE, allGranted |-> TRUE]
                                ELSE [storage |-> storage, media |-> media,
                                      allGranted |-> storage /\ media]]
           /\ UNCHANGED <<deviceVars, appVars>>

\* hasFullFileAccess.  The flag is read first and 'true' is returned on it.
\* Otherwise the test paths are tried in turn: exists, readDir, and on the
\* first that lists, setItem of the flag; a path that is missing, cannot be
\* read or throws is passed over, as is one for which setItem rejects.  A
\* path lists only while the device grants access to all files.
HasFullFileAccess ==
    \E os \in Platforms, flagRead \in {"ok", "throws"}, setOk \in BOOLEAN,
       probes \in [1..3 -> {"listed", "unreadable", "missing", "throws"}] :
        LET listed == {i \in 1..3 : probes[i] = "listed"}
            first == CHOOSE i \in listed : \A j \in listed : i <= j
            tried == IF os = "ios" \/ flagRead = "throws" \/ perm.verified
                     THEN <<>>
                     ELSE IF listed # {} /\ setOk THEN SubSeq(probes, 1, first)
                     ELSE probes
            value == \/ os = "ios"
                     \/ /\ flagRead = "ok"
                        /\ perm.verified \/ (listed # {} /\ setOk)
        IN /\ listed # {} => perm.access
           /\ perm' = [perm EXCEPT !.verified =
                          @ \/ (os = "android" /\ flagRead = "ok" /\ listed # {} /\ setOk)]
           /\ out' = [op |-> "hasFullFileAccess",
                      arg |-> [os |-> os, made |-> IF os = "ios" THEN <<>> ELSE <<flagRead>>,
                               probes |-> tried,
                               flag |-> perm.verified],
                      value |-> value]
           /\ UNCHANGED <<deviceVars, fileCache, live, recentFiles, holding>>

\* requestFullFileAccess up to its second await: the flag is read; 'true' (or
\* a rejection, or iOS) ends the call.
RequestFullFileAccessRead(p) ==
    /\ perm.pc[p] = "idle"
    /\ \E os \in Platforms, flagRead \in {"ok", "throws"} :
          LET goes == os = "android" /\ flagRead = "ok" /\ ~perm.shown
          IN /\ perm' = [perm EXCEPT !.pc[p] = IF goes THEN "set" ELSE "idle"]
             /\ out' = [op |-> IF goes THEN "requestFullFileAccess.read"
                               ELSE "requestFullFileAccess",
                        arg |-> [os |-> os, made |-> IF os = "ios" THEN <<>> ELSE <<flagRead>>],
                        value |-> os = "ios"]
    /\ UNCHANGED <<deviceVars, fileCache, live, recentFiles, holding>>

\* ... and from there: setItem of the flag, then the instruction alert.
RequestFullFileAccessSet(p) ==
    /\ perm.pc[p] = "set"
    /\ \E setOk \in BOOLEAN :
          /\ setOk => perm.alerts < MaxAlerts
          /\ perm' = [perm EXCEPT !.pc[p] = "idle",
                                  !.shown = @ \/ setOk,
                                  !.alerts = IF setOk THEN @ + 1 ELSE @]
          /\ out' = [op |-> "requestFullFileAccess",
                     arg |-> [os |-> "android",
                              made |-> <<"ok", IF setOk THEN "ok" ELSE "throws">>],
                     value |-> FALSE]
    /\ UNCHANGED <<deviceVars, fileCache, live, recentFiles, holding>>

\* resetPermissionState: removeItem of the one flag, then of the other; a
\* rejection ends it.  The alerts are counted anew from here.
ResetPermissionState ==
    \E removed \in 0..2 :
        /\ perm' = [perm EXCEPT !.verified = @ /\ removed < 1,
                                !.shown = @ /\ removed < 2,
                                !.alerts = 0]
        /\ out' = [op |-> "resetPermissionState", arg |-> [os |-> "", made |-> <<removed>>],
                   value |-> FALSE]
        /\ UNCHANGED <<deviceVars, fileCache, live, recentFiles, holding>>

\* The user grants or revokes 'All files access' in the settings.
ToggleAccess ==
    /\ perm' = [perm EXCEPT !.access = ~@]
    /\ UNCHANGED <<deviceVars, out, fileCache, live, recentFiles, holding>>

\* The process is killed and started again: the calls in flight are gone,
\* AsyncStorage is kept.
Restart ==
    /\ \E p \in DOMAIN perm.pc : perm.pc[p] # "idle"
    /\ perm' = [perm EXCEPT !.pc = [p \in DOMAIN perm.pc |-> "idle"]]
    /\ UNCHANGED <<deviceVars, out, fileCache, live, recentFiles, holding>>

NextPerm ==
    \/ CheckAndRequestPermissions
    \/ CheckPermissionsStatus
    \/ HasFullFileAccess
    \/ \E p \in DOMAIN perm.pc : RequestFullFileAccessRead(p) \/ RequestFullFileAccessSet(p)
    \/ ResetPermissionState
    \/ ToggleAccess
    \/ Restart

SpecPerm == InitApp /\ [][NextPerm]_vars

\* ---------------------------------------------------------------- RecycleBin.ts by file names
MetaSuffix == <<".", "m", "e", "t", "a">>

\* item.endsWith('.meta')
EndsWithMeta(item) ==
    /\ Len(item) >= Len(MetaSuffix)
    /\ SubSeq(item, Len(item) - Len(MetaSuffix) + 1, Len(item)) = MetaSuffix

\* path.split('/').pop()
BaseName(path) ==
    LET slashes == {i \in DOMAIN path : path[i] = "/"}
    IN IF slashes = {} THEN path
       ELSE SubSeq(path, (CHOOSE i \in slashes : \A j \in slashes : j <= i) + 1, Len(path))

\* `${timestamp}_${fileName}`
HeldName(timestamp, fileName) ==
    <<(<<"1", "2", "3", "4", "5", "6", "7", "8", "9">>)[timestamp], "_">> \o fileName

\* The directory with a file written at a name.
WithFile(dir, name, content) ==
    [n \in DOMAIN dir \cup {name} |-> IF n = name THEN content ELSE dir[n]]

\* What a recycled file holds: no metadata.
Plain == [json |-> FALSE, originalPath |-> <<>>, deletedAt |-> 0, fileName |-> <<>>]

\* moveToRecycleBin(path): moveAsync to <timestamp>_<fileName>, then the
\* metadata is written to that name + '.meta'.  moveAsync rejects when the
\* source is gone; onto an existing name it replaces or rejects (clash).  The
\* write may reject (io) after the move.  Every rejection is rethrown.
SidecarMoveToRecycleBin ==
    \E path \in SidecarSources, clash \in {"replaces", "rejects"}, io \in {"ok", "throws"} :
        LET fileName == BaseName(path)
            newName == HeldName(clock, fileName)
            metadata == [json |-> TRUE, originalPath |-> path, deletedAt |-> clock,
                         fileName |-> fileName]
            movedTo == path \in holding.sources /\
                       (newName \in DOMAIN holding.dir => clash = "replaces")
            afterMove == WithFile(holding.dir, newName, Plain)
        IN /\ newName \notin DOMAIN holding.dir => clash = "replaces"
           /\ ~movedTo => io = "ok"
           /\ holding' =
                 IF ~movedTo THEN holding
                 ELSE [dir |-> IF io = "ok"
                               THEN WithFile(afterMove, newName \o MetaSuffix, metadata)
                               ELSE afterMove,
                       sources |-> holding.sources \ {path},
                       moved |-> IF io = "ok" THEN holding.moved \cup {path}
                                 ELSE holding.moved]
           /\ out' = [op |-> IF movedTo /\ io = "ok" THEN "moveToRecycleBin"
                             ELSE "moveToRecycleBin.threw",
                      arg |-> path, value |-> <<>>]
           /\ UNCHANGED <<deviceVars, perm, fileCache, live, recentFiles>>

\* getRecycleBinItems: the names not ending in '.meta', each with the
\* metadata read from its name + '.meta'; one read or parse that fails rejects
\* the whole Promise.all and the error is rethrown.  The items are recorded as
\* a set, without the size and kind getInfoAsync adds.
SidecarGetRecycleBinItems ==
    LET items == {item \in DOMAIN holding.dir : ~EndsWithMeta(item)}
        readable(item) == /\ item \o MetaSuffix \in DOMAIN holding.dir
                          /\ holding.dir[item \o MetaSuffix].json
    IN /\ out' = IF \A item \in items : readable(item)
                 THEN [op |-> "getRecycleBinItems", arg |-> <<>>,
                       value |-> {[name |-> holding.dir[item \o MetaSuffix].fileName,
                                   path |-> item,
                                   originalPath |-> holding.dir[item \o MetaSuffix].originalPath,
                                   deletedAt |-> holding.dir[item \o MetaSuffix].deletedAt] :
                                  item \in items}]
                 ELSE [op |-> "getRecycleBinItems.threw", arg |-> <<>>, value |-> {}]
       /\ UNCHANGED <<deviceVars, appVars>>

NextSidecar == SidecarMoveToRecycleBin \/ SidecarGetRecycleBinItems \/ Tick

SpecSidecar == InitApp /\ [][NextSidecar]_vars

\* ---------------------------------------------------------------- RecentFiles.ts
MaxRecentFiles == 2    \* MAX_RECENT_FILES, 50, on the scale of the model's paths

\* The paths opened: the files and the folders themselves.
RecentPaths == Paths \cup DirTargets

\* getInfoAsync(path).exists
Exists(path) == IF path \in DirTargets THEN path[1] \in dirs ELSE files[path] # 0

\* The entry is put first without the entries of its path being taken out.
WithRecentKept(list, entry) ==
    SubSeq(<<entry>> \o list, 1, Min(MaxRecentFiles, Len(list) + 1))

\* filter(file => file.path !== path), unshift(newRecentFile), slice(0, MAX_RECENT_FILES)
WithRecent(list, entry) ==
    LET others == SelectSeq(list, LAMBDA file : file.path # entry.path)
    IN SubSeq(<<entry>> \o others, 1, Min(MaxRecentFiles, Len(others) + 1))

\* What neither a call on the recent files nor a file's removal changes.
recentVars == <<impl, clock, bin, metaf, store, proc, active, ghost, calls, faults,
                lastPurged, binDir, denied, nostat, mtimes, fileIndex, searchResults,
                recentSearches, perm, fileCache, live, holding>>

\* addToRecentFiles(path): nothing for a path that does not exist; otherwise
\* the list is read, the entry put first and the list written.  A rejection
\* (io) of getInfoAsync or AsyncStorage is caught and logged.
AddToRecentFiles ==
    \E path \in RecentPaths, io \in {"ok", "throws"} :
        LET newRecentFile == [path |-> path, name |-> path[2], lastAccessed |-> clock,
                              isFile |-> path \notin DirTargets,
                              size |-> IF path \in DirTargets THEN 0 ELSE files[path]]
        IN /\ recentFiles' = IF io = "ok" /\ Exists(path)
                             THEN WithRecent(recentFiles, newRecentFile)
                             ELSE recentFiles
           /\ out' = [op |-> "addToRecentFiles",
                      arg |-> [path |-> path, io |-> io, exists |-> Exists(path),
                               found |-> recentFiles],
                      value |-> <<>>]
           /\ UNCHANGED <<recentVars, files, dirs>>

\* getRecentFiles: the entries whose path exists, written back and returned;
\* [] without an entry in AsyncStorage (nothing is written) and on a
\* rejection.
GetRecentFiles ==
    \E io \in {"ok", "throws"} :
        LET existingFiles == SelectSeq(recentFiles, LAMBDA file : Exists(file.path))
        IN /\ recentFiles' = IF io = "ok" THEN existingFiles ELSE recentFiles
           /\ out' = [op |-> "getRecentFiles",
                      arg |-> [io |-> io, found |-> recentFiles,
                               gone |-> {path \in RecentPaths : ~Exists(path)}],
                      value |-> IF io = "ok" THEN existingFiles ELSE <<>>]
           /\ UNCHANGED <<recentVars, files, dirs>>

\* clearRecentFiles: removeItem; a rejection is caught.
ClearRecentFiles ==
    \E io \in {"ok", "throws"} :
        /\ recentFiles' = IF io = "ok" THEN <<>> ELSE recentFiles
        /\ out' = [op |-> "clearRecentFiles", arg |-> [io |-> io], value |-> <<>>]
        /\ UNCHANGED <<recentVars, files, dirs>>

\* A file is removed outside the application.
RemoveFile ==
    \E path \in Paths :
        /\ files[path] # 0
        /\ files' = [files EXCEPT ![path] = 0]
        /\ UNCHANGED <<recentVars, recentFiles, out, dirs>>

NextRecent ==
    \/ AddToRecentFiles
    \/ GetRecentFiles
    \/ ClearRecentFiles
    \/ CreateFile
    \/ RemoveFile
    \/ ToggleDir
    \/ Tick

SpecRecent == InitApp /\ [][NextRecent]_vars

\* ---------------------------------------------------------------- claims
Done(p, ops) == proc[p].pc = "done" /\ proc[p].op \in ops

Count(items, r) == Cardinality({i \in DOMAIN items : items[i] = r})

\* C1 (as claimed): a successful restoreFromRecycleBin of an item that a successful
\* moveToRecycleBin(P) recorded, with P's parent present and nothing at P when
\* the restore is called, leaves at P the content the file had when it was
\* deleted (the length the record holds), leaves no file at the item's
\* recyclePath, and leaves the list without the item.
RoundTrip ==
    \A p \in Procs :
        LET item == proc[p].item
            P == item.originalPath
        IN (/\ Done(p, {"restoreFromRecycleBin"})
            /\ proc[p].res = "true"
            /\ proc[p].snap.files[P] = 0
            /\ OriginalDir(P) \in proc[p].snap.dirs)
           => /\ files[P] = item.size
              /\ bin[item.recyclePath] = 0
              /\ item \notin Range(store)

\* C2 (as claimed): whenever no call is in flight, every file of the holding
\* directory has exactly one metadata record and every record has its file.
HoldingConsistent ==
    (\A p \in Procs : proc[p].pc \in {"idle", "done"})
    => IF impl = "kv"
       THEN /\ \A b \in BinNames :
                  bin[b] # 0 =>
                     Cardinality({i \in DOMAIN store : store[i].recyclePath = b}) = 1
            /\ \A i \in DOMAIN store : bin[store[i].recyclePath] # 0
       ELSE \A b \in BinNames : (bin[b] # 0) <=> (metaf[b] # NoMeta)

\* C3 (as claimed): after a successful deleteItem(path) the file is in the
\* recycle bin, with a record naming path, from where it can be restored.
DeleteIsSoft ==
    \A p \in Procs :
        (Done(p, {"deleteItem", "legacy.deleteItem"}) /\ proc[p].res = "true")
        => LET path == proc[p].path
               was == proc[p].snap.files[path]
           IN IF impl = "kv"
              THEN \E i \in DOMAIN store :
                      /\ store[i].originalPath = path
                      /\ bin[store[i].recyclePath] = was
              ELSE \E b \in BinNames :
                      /\ metaf[b].originalPath = path
                      /\ bin[b] = was

\* C4 (as claimed): a restore called while a file is at the item's originalPath
\* fails and leaves that file, the recycled file and the item's metadata as
\* they were.
RestoreCollisionGuard ==
    \A p \in Procs :
        LET item == proc[p].item
            P == item.originalPath
            snap == proc[p].snap
        IN (/\ Done(p, {"restoreFromRecycleBin", "sc.restoreFromRecycleBin"})
            /\ P \in Paths
            /\ snap.files[P] # 0)
           => /\ proc[p].res # "true"
              /\ files[P] = snap.files[P]
              /\ bin[item.recyclePath] = snap.bin[item.recyclePath]
              /\ metaf[item.recyclePath] = snap.metaf[item.recyclePath]
              /\ store = snap.store

\* C5 (as claimed): a successful deleteFromRecycleBin(item) leaves no file at the
\* item's recyclePath and no such item in the list; a further call with the
\* item it purged, no longer listed, returns false and changes neither the
\* holding directory nor the list.
PurgePermanence ==
    \A p \in Procs :
        LET item == proc[p].item
            snap == proc[p].snap
        IN Done(p, {"deleteFromRecycleBin"})
           => /\ proc[p].res = "true"
                 => bin[item.recyclePath] = 0 /\ item \notin Range(store)
              /\ (snap.lastPurged = item /\ item \notin Range(snap.store))
                 => /\ proc[p].res = "false"
                    /\ bin = snap.bin
                    /\ store = snap.store

\* Two recycled files of one base name from different directories, deleted at
\* different times: the one's Date.now() readings all come before the other's.
KvCollisionPair(a, b) ==
    /\ a.originalName = b.originalName
    /\ a.originalPath # b.originalPath
    /\ (a.deletedAt < b.id \/ b.deletedAt < a.id)

ScCollisionPair(snap, a, b) ==
    /\ snap.metaf[a] # NoMeta /\ snap.metaf[b] # NoMeta
    /\ snap.metaf[a].fileName = snap.metaf[b].fileName
    /\ snap.metaf[a].originalPath # snap.metaf[b].originalPath
    /\ snap.metaf[a].deletedAt # snap.metaf[b].deletedAt

\* C6: two files of one base name deleted from different directories at
\* different times get distinct recyclePaths and distinct records, both kept;
\* and a restore or purge of the one leaves the other's holding file and
\* metadata as they were.
UniquenessUnderCollision ==
    /\ \A i, j \in DOMAIN store :
          KvCollisionPair(store[i], store[j])
          => /\ store[i].recyclePath # store[j].recyclePath
             /\ store[i].id # store[j].id
    /\ \A p \in Procs :
          LET item == proc[p].item
              snap == proc[p].snap
          IN /\ (Done(p, {"moveToRecycleBin"}) /\ proc[p].res = "true")
                => \A r \in Range(snap.store) :
                      KvCollisionPair(r, item)
                      => /\ item \in Range(store)
                         /\ Count(store, r) = Count(snap.store, r)
                         /\ bin[r.recyclePath] = snap.bin[r.recyclePath]
                         /\ bin[item.recyclePath] = item.size
             /\ (/\ Done(p, {"restoreFromRecycleBin", "deleteFromRecycleBin"})
                 /\ item \in Range(snap.store))
                => \A r \in Range(snap.store) :
                      KvCollisionPair(r, item)
                      => /\ Count(store, r) = Count(snap.store, r)
                         /\ bin[r.recyclePath] = snap.bin[r.recyclePath]
             /\ (Done(p, {"sc.moveToRecycleBin"}) /\ proc[p].res = "true")
                => \A b \in BinNames :
                      (/\ snap.metaf[b] # NoMeta
                       /\ snap.metaf[b].fileName = item.originalName
                       /\ snap.metaf[b].originalPath # item.originalPath
                       /\ snap.metaf[b].deletedAt # item.deletedAt)
                      => /\ b # item.recyclePath
                         /\ metaf[b] = snap.metaf[b]
                         /\ bin[b] = snap.bin[b]
                         /\ metaf[item.recyclePath].originalPath = item.originalPath
             /\ Done(p, {"sc.restoreFromRecycleBin", "permanentlyDeleteFromRecycleBin"})
                => \A b \in BinNames :
                      ScCollisionPair(snap, item.recyclePath, b)
                      => /\ metaf[b] = snap.metaf[b]
                         /\ bin[b] = snap.bin[b]

\* C6, reached: the restore of one of two such files has completed with both
\* records in the list beforehand.
UniquenessWitness ==
    \E p \in Procs :
        /\ Done(p, {"restoreFromRecycleBin"})
        /\ proc[p].res = "true"
        /\ proc[p].item \in Range(proc[p].snap.store)
        /\ \E r \in Range(proc[p].snap.store) : KvCollisionPair(r, proc[p].item)

\* C7 (as claimed): no two records of the list share an id or a recyclePath.
IdsUnique ==
    \A i, j \in DOMAIN store :
        i # j => /\ store[i].id # store[j].id
                 /\ store[i].recyclePath # store[j].recyclePath

\* C8 (as claimed): when emptyRecycleBin ends with a file of the list it read
\* still in the holding directory (its unlink failed), the list holds exactly
\* the records of the files that are still there.
EmptyKeepsFailedOnly ==
    \A p \in Procs :
        LET items == proc[p].items
        IN (/\ Done(p, {"emptyRecycleBin"})
            /\ \E r \in Range(items) : bin[r.recyclePath] # 0)
           => Range(store) = {r \in Range(items) : bin[r.recyclePath] # 0}

\* C9 (as claimed): the write that ends a successful mutation drops no record of
\* the persisted list but the ones the call is to remove: the record of the
\* item restored or purged, or the records emptyRecycleBin read and unlinked.
NoLostUpdate ==
    [][\A q \in Procs :
          (proc[q].pc = "write" /\ proc'[q].res = "true")
          => \A i \in DOMAIN store :
                \/ store[i] \in Range(store')
                \/ /\ proc[q].op \in {"restoreFromRecycleBin", "deleteFromRecycleBin"}
                   /\ store[i].id = proc[q].item.id
                \/ /\ proc[q].op = "emptyRecycleBin"
                   /\ store[i] \in Range(proc[q].items)]_vars

\* C10 (as claimed): no getRecycleBinItems read returns the record of an item
\* whose file a restore in progress has already moved back to originalPath.
RestoreAtomicForList ==
    [][\A q \in Procs :
          (At(q, "getRecycleBinItems", "start") /\ proc'[q].pc = "done")
          => \A p \in Procs :
                (proc[p].op = "restoreFromRecycleBin" /\ proc[p].pc \in {"read", "write"})
                => proc[p].item \notin Range(proc'[q].items)]_vars

InitOps == {"initializeRecycleBin", "sc.initializeRecycleBin"}

\* C11 (as claimed): when initializeRecycleBin has completed, every file of the
\* holding directory has a metadata record and every record has its file.
InitReconciles ==
    \A p \in Procs :
        (Done(p, InitOps) /\ proc[p].res = "true")
        => IF impl = "kv"
           THEN /\ \A b \in BinNames :
                      bin[b] # 0 => \E i \in DOMAIN store : store[i].recyclePath = b
                /\ \A i \in DOMAIN store : bin[store[i].recyclePath] # 0
           ELSE \A b \in BinNames : (bin[b] # 0) <=> (metaf[b] # NoMeta)

\* C12: a completed initializeRecycleBin leaves the holding directory present
\* with the files, sidecar files and records it held when the call was made;
\* made where the directory already is (so after any earlier call), it changes
\* nothing at all.
InitIdempotent ==
    \A p \in Procs :
        LET snap == proc[p].snap
        IN (Done(p, InitOps) /\ proc[p].res = "true")
           => /\ binDir
              /\ bin = snap.bin
              /\ metaf = snap.metaf
              /\ store = snap.store

\* C12, reached: a second or later call has completed on a holding directory
\* that holds a file.
InitIdempotentWitness ==
    \E p \in Procs :
        /\ Done(p, InitOps)
        /\ proc[p].res = "true"
        /\ calls <= MaxCalls - 2
        /\ \E b \in BinNames : bin[b] # 0

NewestFirst(items) ==
    \A i, j \in DOMAIN items : i < j => items[i].deletedAt >= items[j].deletedAt

RestoreTarget(p) ==
    IF proc[p].op = "restoreFromRecycleBin" THEN proc[p].item.originalPath
    ELSE proc[p].snap.metaf[proc[p].item.recyclePath].originalPath

\* C14 (as claimed): a restore of a held item whose parent directory is missing
\* when the call is made succeeds: the parent exists afterwards, the file is
\* at originalPath and the metadata of the item is gone.
RestoreRecreatesParent ==
    \A p \in Procs :
        LET item == proc[p].item
            snap == proc[p].snap
        IN (/\ Done(p, {"restoreFromRecycleBin", "sc.restoreFromRecycleBin"})
            /\ snap.bin[item.recyclePath] # 0
            /\ RestoreTarget(p) \in Paths
            /\ OriginalDir(RestoreTarget(p)) \notin snap.dirs)
           => /\ proc[p].res = "true"
              /\ OriginalDir(RestoreTarget(p)) \in dirs
              /\ files[RestoreTarget(p)] # 0
              /\ item \notin Range(store)
              /\ metaf[item.recyclePath] = NoMeta

\* Whether a ranks strictly before b for the query: an entry whose name is the
\* query before one whose name is not, and otherwise by name.
RanksBefore(a, b, q) ==
    \/ (a.name = q /\ b.name # q)
    \/ ((a.name = q) = (b.name = q) /\ LocaleCompare(a.name, b.name) < 0)

\* C15: after searchFiles on a non-blank query the published results are at
\* most ResultCap entries of the index that match the lower-cased query, all
\* distinct, as many as the cap and the number of matches allow, in ranking
\* order, and no match left out ranks before one that was published.
SearchTopRanked ==
    (out.op = "searchFiles" /\ ~IsBlank(out.arg))
    => LET q == ToLowerCase(out.arg)
           M == {k \in DOMAIN fileIndex : Matches(fileIndex[k], q)}
           res == searchResults
       IN /\ Len(res) <= ResultCap
          /\ Len(res) = Min(ResultCap, Cardinality(M))
          /\ \A i \in DOMAIN res : \E k \in M : res[i] = fileIndex[k]
          /\ \A i, j \in DOMAIN res : i # j => res[i].path # res[j].path
          /\ \A i, j \in DOMAIN res : i < j => ~RanksBefore(res[j], res[i], q)
          /\ \A k \in M : fileIndex[k] \notin Range(res)
                => \A i \in DOMAIN res : ~RanksBefore(fileIndex[k], res[i], q)

\* C15, reached: a search with more matches than the cap, one of them the
\* exact name, has published the exact match first.
SearchTopRankedWitness ==
    /\ out.op = "searchFiles"
    /\ ~IsBlank(out.arg)
    /\ Cardinality({k \in DOMAIN fileIndex :
                      Matches(fileIndex[k], ToLowerCase(out.arg))}) > ResultCap
    /\ Len(searchResults) = ResultCap
    /\ searchResults[1].name = ToLowerCase(out.arg)
    /\ \E k \in DOMAIN fileIndex :
          /\ Matches(fileIndex[k], ToLowerCase(out.arg))
          /\ LocaleCompare(fileIndex[k].name, searchResults[1].name) < 0

\* C16 (as claimed): the results the live search publishes are at most
\* ResultCap entries, no two of one path.
LiveCappedUnique ==
    out.op = "liveSearchFiles"
    => /\ Len(searchResults) <= ResultCap
       /\ \A i, j \in DOMAIN searchResults :
             i # j => searchResults[i].path # searchResults[j].path

\* Whether a catalogue holds one entry for every (lower-cased name, size) key
\* of the files walked, that entry as new as any file walked under the key.
OnePerKeyLatest(catalogue, walked) ==
    /\ \A i, j \in DOMAIN catalogue :
          NameSizeKey(catalogue[i]) = NameSizeKey(catalogue[j]) => i = j
    /\ \A n \in DOMAIN walked :
          \E i \in DOMAIN catalogue :
              /\ NameSizeKey(catalogue[i]) = NameSizeKey(walked[n])
              /\ catalogue[i].modifiedTime >= walked[n].modifiedTime

FilesOnly(entries) == SelectSeq(entries, LAMBDA e : ~e.isDirectory)

\* C17: after buildFileIndex, loadImages and loadDocumentBatch the index or
\* catalogue built holds exactly one entry for each (lower-cased name, size)
\* key among the files walked, and it is the one with the latest modifiedTime.
DedupKeepsLatest ==
    /\ out.op = "buildFileIndex" =>
          OnePerKeyLatest(FilesOnly(fileIndex),
                          FilesOnly(ConcatAll([r \in DOMAIN IndexRoots |->
                                                  IndexOneLevel(IndexRoots[r])])))
    /\ out.op = "loadImages" =>
          OnePerKeyLatest(out.value,
                          ConcatAll([r \in DOMAIN ImageRoots |->
                                        ImagesOneLevel(ImageRoots[r])]))
    /\ (out.op = "loadDocumentBatch" /\ out.arg = 0 /\ ~out.value.hasMore) =>
          OnePerKeyLatest(out.value.items,
                          ConcatAll([r \in DOMAIN DocumentRoots |->
                                        DocumentsOf(DocumentRoots[r])]))

\* Whether every one of the items is among the entries, by its path.
AllAmong(items, entries) ==
    \A n \in DOMAIN items : \E i \in DOMAIN entries : entries[i].path = items[n].path

\* C18: readDirectory throws only when the directory listed cannot itself be
\* read, and lists every child that can be stat'ed (and, a folder, read);
\* buildFileIndex holds every item of every readable root and of every readable
\* folder of it; scanFilesOptimized returns every wanted file of every readable
\* directory: whatever other directory or child fails.
PartialFailureTolerated ==
    /\ out.op = "readDirectory.threw" => ~Readable(out.arg)
    /\ out.op = "readDirectory" =>
          AllAmong(SelectSeq(Listing(out.arg),
                             LAMBDA c : /\ c.path \notin nostat
                                        /\ (c.isDirectory => Readable(c.path))),
                   out.value)
    /\ out.op = "buildFileIndex" =>
          \A r \in DOMAIN IndexRoots :
              Readable(IndexRoots[r]) =>
                  /\ AllAmong(Listing(IndexRoots[r]), fileIndex)
                  /\ \A n \in DOMAIN Listing(IndexRoots[r]) :
                        LET item == Listing(IndexRoots[r])[n]
                        IN (item.isDirectory /\ Readable(item.path)) =>
                              AllAmong(Listing(item.path), fileIndex)
    /\ out.op = "scanFilesOptimized" =>
          \A d \in DOMAIN out.arg.directories :
              Readable(out.arg.directories[d]) =>
                  AllAmong(SelectSeq(Listing(out.arg.directories[d]),
                                     LAMBDA c : ~c.isDirectory
                                                /\ HasType(c, out.arg.fileTypes)),
                           out.value)

\* A listing of a directory one child of which cannot be stat'ed, with the
\* child's siblings in it.
PartialFailureWitness ==
    /\ out.op = "readDirectory"
    /\ \E n \in DOMAIN Listing(out.arg) : Listing(out.arg)[n].path \in nostat
    /\ Len(out.value) = Len(Listing(out.arg)) - 1

CopyMoveOps == {"legacy.copyItem", "legacy.moveItem", "copyItem", "moveItem"}

\* C19: a copyItem or moveItem without overwrite onto a place that holds
\* something throws and leaves every file as it was.
NoSilentOverwrite ==
    [][(/\ out'.op \in CopyMoveOps
        /\ ~out'.arg.overwrite
        /\ files[out'.arg.to] # 0)
       => (out'.value.res = "threw" /\ files' = files)]_vars

MutationOps == {"legacy.createFolder", "legacy.createFile", "legacy.renameItem",
                "legacy.copyItem", "legacy.moveItem", "legacy.deleteItem",
                "createFile", "createDirectory", "createFolder", "renameItem",
                "copyItem", "moveItem", "deleteItem"}

\* C20: every mutation operation makes the permission check its first call,
\* and changes no file or directory when the permission is not granted.
PermissionGateFirst ==
    [][out'.op \in MutationOps
       => /\ out'.value.calls # <<>>
          /\ out'.value.calls[1] = "checkAndRequestPermissions"
          /\ (~out'.arg.granted => (files' = files /\ dirs' = dirs))]_vars

\* Whether one of the outcomes is a rejection.
Rejected(outcomes) == \E i \in DOMAIN outcomes : outcomes[i] = "throws"

NothingGranted == [storage |-> FALSE, media |-> FALSE, allGranted |-> FALSE]

\* C21: whenever a platform permission call or a probe throws,
\* checkAndRequestPermissions returns false, checkPermissionsStatus reports
\* nothing granted and hasFullFileAccess returns false.
FailClosed ==
    /\ (out.op = "checkAndRequestPermissions" /\ Rejected(out.arg.made)) => out.value = FALSE
    /\ (out.op = "checkPermissionsStatus" /\ Rejected(out.arg.made)) => out.value = NothingGranted
    /\ (out.op = "hasFullFileAccess" /\ (Rejected(out.arg.made) \/ Rejected(out.arg.probes)))
          => out.value = FALSE

\* C21, amended: as above for the first two; hasFullFileAccess returns false
\* when the read of its flag throws, and on Android returns true only on a
\* stored flag or when a test path listed: a probe that throws is passed over
\* and never counts as access.
FailClosedProbes ==
    /\ (out.op = "checkAndRequestPermissions" /\ Rejected(out.arg.made)) => out.value = FALSE
    /\ (out.op = "checkPermissionsStatus" /\ Rejected(out.arg.made)) => out.value = NothingGranted
    /\ (out.op = "hasFullFileAccess" /\ Rejected(out.arg.made)) => out.value = FALSE
    /\ (out.op = "hasFullFileAccess" /\ out.arg.os = "android" /\ out.value = TRUE)
          => \/ out.arg.flag
             \/ /\ out.arg.probes # <<>>
                /\ out.arg.probes[Len(out.arg.probes)] = "listed"

\* The storage permissions are granted and the media library call throws.
FailClosedWitness ==
    /\ out.op = "checkPermissionsStatus"
    /\ out.arg.made = <<"granted", "granted", "throws">>
    /\ out.value = NothingGranted

\* C22: the 'All files access' instruction alert is shown at most once
\* between two calls of resetPermissionState.
OneInstructionAlert == perm.alerts <= 1

\* C23: on Android hasFullFileAccess returns true only if one of the test
\* paths was listed during the call.
FullAccessFollowsProbe ==
    (out.op = "hasFullFileAccess" /\ out.arg.os = "android" /\ out.value = TRUE)
        => \E i \in DOMAIN out.arg.probes : out.arg.probes[i] = "listed"

\* The files a walk of the directories finds now.
FreshScan(directories, fileTypes) ==
    ConcatAll([d \in DOMAIN directories |-> ScanOne(directories[d], fileTypes)])

\* C24: a scan with the cache (AsyncStorage answering) serves the snapshot it
\* finds only when that is younger than the expiry, strictly; otherwise it
\* walks the directories and leaves a snapshot of what it found, stamped with
\* the time of the call; and the snapshot changes in no step but a call.
SnapshotTtl ==
    /\ [](out.op = "scanFilesOptimized" /\ out.arg.useCache /\ out.arg.io = "ok" =>
             IF out.arg.found # NoCache /\ out.arg.now - out.arg.found.lastUpdated < CacheExpiry
             THEN /\ out.arg.left = out.arg.found
                  /\ Range(out.value) \subseteq Range(out.arg.found.files)
             ELSE /\ out.value = FreshScan(out.arg.directories, out.arg.fileTypes)
                  /\ out.arg.left = [files |-> out.value, lastUpdated |-> out.arg.now])
    /\ [][fileCache' # fileCache =>
             out'.op \in {"scanFilesOptimized", "clearFileCache"} /\ out' # out]_vars

\* A snapshot exactly as old as the expiry was found and the directories
\* were walked again.
SnapshotTtlWitness ==
    /\ out.op = "scanFilesOptimized"
    /\ out.arg.useCache /\ out.arg.io = "ok"
    /\ out.arg.found # NoCache
    /\ out.arg.now - out.arg.found.lastUpdated = CacheExpiry
    /\ out.arg.left.lastUpdated = out.arg.now
    /\ out.value # <<>>

\* C27: on an unchanged file system a scan with the cache returns the same
\* set of files as a scan without it.
CacheTransparent ==
    (out.op = "scanFilesOptimized" /\ out.arg.useCache /\ out.arg.io = "ok")
        => Range(out.value) = Range(FreshScan(out.arg.directories, out.arg.fileTypes))

\* C25: the recent searches are at most the cap, no query is in the list
\* twice, and no blank query is in it.
RecentBoundedUnique ==
    /\ Len(recentSearches) <= RecentCap
    /\ \A i, j \in DOMAIN recentSearches :
          recentSearches[i] = recentSearches[j] => i = j
    /\ \A i \in DOMAIN recentSearches : ~IsBlank(recentSearches[i])

\* C26: after a search for a query that is not blank, the query is the first
\* of the recent searches.
RecentNewestFirst ==
    (out.op \in {"searchFiles", "liveSearchFiles"} /\ ~IsBlank(out.arg))
        => /\ recentSearches # <<>>
           /\ recentSearches[1] = out.arg

\* C29: once no live search is in flight, the results published are those of
\* the query of the last search started, and isSearching is false.
NoStaleResults ==
    (live.calls = <<>> /\ live.latest # <<>>)
        => /\ {searchResults[i].path : i \in DOMAIN searchResults} =
              {e.path : e \in UNION {Range(SearchDirectory(LiveRoots[r],
                                                            ToLowerCase(live.latest))) :
                                      r \in DOMAIN LiveRoots}}
           /\ ~live.isSearching

\* C28: a listing returns an item for every path moveToRecycleBin has moved
\* and described, whatever its name, and returns the items that have their
\* metadata whatever else the holding directory contains.
SidecarListsAll ==
    (out.op \in {"getRecycleBinItems", "getRecycleBinItems.threw"})
        => /\ \A path \in holding.moved : \E item \in out.value : item.originalPath = path
           /\ \A name \in DOMAIN holding.dir :
                 (~EndsWithMeta(name) /\ name \o MetaSuffix \in DOMAIN holding.dir
                   /\ holding.dir[name \o MetaSuffix].json)
                     => \E item \in out.value : item.path = name

\* C30: the recent files are at most the cap and no path is in the list
\* twice; where AsyncStorage answers, addToRecentFiles of a path that exists
\* leaves it first, of a path that does not exist leaves the list as found, and
\* getRecentFiles leaves and returns the list found without exactly the
\* entries whose path is gone, in the order found.
RecentFilesInvariant ==
    /\ Len(recentFiles) <= MaxRecentFiles
    /\ \A i, j \in DOMAIN recentFiles :
          recentFiles[i].path = recentFiles[j].path => i = j
    /\ (out.op = "addToRecentFiles" /\ out.arg.io = "ok" /\ out.arg.exists)
          => recentFiles # <<>> /\ recentFiles[1].path = out.arg.path
    /\ (out.op = "addToRecentFiles" /\ ~out.arg.exists) => recentFiles = out.arg.found
    /\ (out.op = "getRecentFiles" /\ out.arg.io = "ok")
          => /\ recentFiles = out.value
             /\ out.value = SelectSeq(out.arg.found,
                                      LAMBDA file : file.path \notin out.arg.gone)

\* A path already in a full list, not first, was added again and is first;
\* the list is still full.
RecentFilesWitness ==
    /\ out.op = "addToRecentFiles" /\ out.arg.io = "ok" /\ out.arg.exists
    /\ Len(out.arg.found) = MaxRecentFiles
    /\ out.arg.found[2].path = out.arg.path
    /\ Len(recentFiles) = MaxRecentFiles
    /\ recentFiles[1].path = out.arg.path

====
